---- MODULE Spec2Model ----
(***************************************************************************)
(* Model of the resilient translation gateway of XgzK/translate-services:  *)
(* the retrying DeepLX client (DeepLXTranslator.doRequest), the Google     *)
(* format adapter (GoogleTranslator), and the cache-aside decorator        *)
(* (CachedTranslationService) with its detached cache-write goroutine.     *)
(*                                                                         *)
(* Go strings are sequences of Unicode code points.  A nil pointer / nil   *)
(* slice is the empty tuple None and a present value x is Some(x).         *)
(***************************************************************************)
EXTENDS Integers, Sequences, FiniteSets, TLC

\* ------------------------------------------------------------------------
\* Bounds of the model
\* ------------------------------------------------------------------------

\* number of translate calls issued against the service (concurrent or not)
NumCalls == 2

\* number of faults the environment injects in one run: cancellations of a
\* caller's context, failed cache reads, store errors of a cache write, the
\* closing of the cache
MaxFaults == 1

\* attempt numbers up to which the backoff function is tabulated
MaxBackoffAttempt == 5

\* ------------------------------------------------------------------------
\* Program constants
\* ------------------------------------------------------------------------

\* const CacheFormatVersion = 1
CacheFormatVersion == 1

\* defaultCacheWriteTimeout = 5 * time.Second (unit of the model: seconds)
defaultCacheWriteTimeout == 5

\* DeepLXTranslator.maxRetryAttempt set by NewTranslator
maxRetryAttempt == 2

\* http.StatusOK
StatusOK == 200

None == <<>>
Some(x) == <<x>>
IsSome(o) == Len(o) = 1
Val(o) == o[1]

\* a nil error
NoErr == "nil"

\* ------------------------------------------------------------------------
\* Strings: sequences of code points
\* ------------------------------------------------------------------------

Empty == <<>>
s_auto == <<97, 117, 116, 111>>
s_AUTO == <<65, 85, 84, 79>>
s_en == <<101, 110>>
s_EN == <<69, 78>>
s_en_us == <<101, 110, 45, 117, 115>>
s_en_gb == <<101, 110, 45, 103, 98>>
s_en_GB == <<101, 110, 45, 71, 66>>
s_zh == <<122, 104>>
s_ZH == <<90, 72>>
s_zh_hans == <<122, 104, 45, 104, 97, 110, 115>>
s_zh_hant == <<122, 104, 45, 104, 97, 110, 116>>
s_zh_CN == <<122, 104, 45, 67, 78>>
s_zh_TW == <<122, 104, 45, 84, 87>>
s_ja == <<106, 97>>
s_ko == <<107, 111>>
s_fr == <<102, 114>>
s_de == <<100, 101>>
s_es == <<101, 115>>
s_ru == <<114, 117>>
s_pt == <<112, 116>>
s_pt_br == <<112, 116, 45, 98, 114>>
s_it == <<105, 116>>
s_ar == <<97, 114>>
\* "hi", " hi", "Hi" and the ideograph U+4F60
s_hi == <<104, 105>>
s_sp_hi == <<32, 104, 105>>
s_ni == <<20320>>
\* "g4", a model identifier
s_g4 == <<103, 52>>
\* provider names: "DeepLX", "Stub"
s_DeepLX == <<68, 101, 101, 112, 76, 88>>
s_Stub == <<83, 116, 117, 98>>
\* KeyPrefix = "translate", SharedServiceName = "shared"
KeyPrefix == <<116, 114, 97, 110, 115, 108, 97, 116, 101>>
SharedServiceName == <<115, 104, 97, 114, 101, 100>>
\* ':' and '|'
Colon == <<58>>
Bar == <<124>>
\* translated texts a provider may answer with: "OK", "ok!"
s_T1 == <<79, 75>>
s_T2 == <<111, 107, 33>>
\* "translation", the part of speech of the synthesized dictionary entry
s_translation == <<116, 114, 97, 110, 115, 108, 97, 116, 105, 111, 110>>

\* unicode.ToLower on the code points the model uses (ASCII, Cyrillic)
ToLowerRune(r) ==
    IF r >= 65 /\ r <= 90 THEN r + 32
    ELSE IF r >= 1040 /\ r <= 1071 THEN r + 32
    ELSE IF r >= 1024 /\ r <= 1039 THEN r + 80
    ELSE r

\* unicode.ToUpper on the code points the model uses (ASCII, Cyrillic)
ToUpperRune(r) ==
    IF r >= 97 /\ r <= 122 THEN r - 32
    ELSE IF r >= 1072 /\ r <= 1103 THEN r - 32
    ELSE IF r >= 1104 /\ r <= 1119 THEN r - 80
    ELSE r

\* strings.ToLower
ToLower(s) == [i \in 1..Len(s) |-> ToLowerRune(s[i])]

\* strings.ToUpper
ToUpper(s) == [i \in 1..Len(s) |-> ToUpperRune(s[i])]

\* unicode.IsSpace
IsSpace(r) ==
    \/ r \in {9, 10, 11, 12, 13, 32, 133, 160, 5760, 8232, 8233, 8239, 8287, 12288}
    \/ (r >= 8192 /\ r <= 8202)

\* strings.TrimSpace: drop leading and trailing white space
TrimSpace(s) ==
    LET idx == {i \in 1..Len(s) : ~IsSpace(s[i])}
    IN  IF idx = {} THEN Empty
        ELSE LET lo == CHOOSE i \in idx : \A j \in idx : i <= j
                 hi == CHOOSE i \in idx : \A j \in idx : i >= j
             IN  SubSeq(s, lo, hi)

\* strings.EqualFold (simple case folding)
EqualFold(a, b) == ToLower(a) = ToLower(b)

\* ------------------------------------------------------------------------
\* internal/langutil
\* ------------------------------------------------------------------------

IsCJK(r) ==
    \/ (r >= 19968 /\ r <= 40959)
    \/ (r >= 13312 /\ r <= 19903)
    \/ (r >= 131072 /\ r <= 173791)

IsCyrillic(r) == r >= 1024 /\ r <= 1279

IsJapanese(r) ==
    \/ (r >= 12352 /\ r <= 12447)
    \/ (r >= 12448 /\ r <= 12543)

IsKorean(r) == r >= 44032 /\ r <= 55215

NormalizeLanguageCode(code) ==
    LET c == ToLower(code)
    IN  IF c \in {s_zh, s_zh_hans} THEN s_zh_CN
        ELSE IF c = s_zh_hant THEN s_zh_TW
        ELSE IF c \in {s_en, s_en_us} THEN s_en
        ELSE IF c = s_en_gb THEN s_en_GB
        ELSE IF c = s_ja THEN s_ja
        ELSE IF c = s_ko THEN s_ko
        ELSE IF c = s_fr THEN s_fr
        ELSE IF c = s_de THEN s_de
        ELSE IF c = s_es THEN s_es
        ELSE IF c = s_ru THEN s_ru
        ELSE IF c \in {s_pt, s_pt_br} THEN s_pt
        ELSE IF c = s_it THEN s_it
        ELSE IF c = s_ar THEN s_ar
        ELSE c

\* the language of one rune in the order the loop of DetectLanguage tests it
RuneLanguage(r) ==
    IF IsCJK(r) THEN s_zh_CN
    ELSE IF IsCyrillic(r) THEN s_ru
    ELSE IF IsJapanese(r) THEN s_ja
    ELSE IF IsKorean(r) THEN s_ko
    ELSE Empty

\* a detection that knows the auto sentinel in lower case only
DetectLanguageLowerAutoOnly(text, requested) ==
    IF TrimSpace(requested) # Empty /\ requested # s_auto
    THEN NormalizeLanguageCode(requested)
    ELSE LET idx == {i \in 1..Len(text) : RuneLanguage(text[i]) # Empty}
         IN  IF idx = {} THEN s_en
             ELSE RuneLanguage(text[CHOOSE i \in idx : \A j \in idx : i <= j])

DetectLanguage(text, requested) ==
    IF TrimSpace(requested) # Empty /\ ~EqualFold(requested, s_auto)
    THEN NormalizeLanguageCode(requested)
    ELSE LET idx == {i \in 1..Len(text) : RuneLanguage(text[i]) # Empty}
         IN  IF idx = {} THEN s_en
             ELSE RuneLanguage(text[CHOOSE i \in idx : \A j \in idx : i <= j])

\* langutil.Includes over the requested data types (tokens are Go strings)
Includes(params, target) == \E i \in 1..Len(params) : params[i] = target

\* ------------------------------------------------------------------------
\* Canonical response (translation.Response) and upstream outcome
\* ------------------------------------------------------------------------

\* the data-type tokens of a request (dt): t, rm, bd, qca, ex
DtT == "t"
DtRm == "rm"
DtBd == "bd"
DtQca == "qca"
DtEx == "ex"

\* translation.Sentence with its zero values
Sentence(orig, trans, backend, srcTranslit, translit) ==
    [Orig |-> orig, Trans |-> trans, Backend |-> backend,
     SrcTranslit |-> srcTranslit, Translit |-> translit]

\* translation.Response; nil pointers and nil slices are None / <<>>
Response(src, sentences, dict, spell, ld, alts, examples) ==
    [Src |-> src, Sentences |-> sentences, Dict |-> dict, Spell |-> spell,
     LDResult |-> ld, AlternativeTranslations |-> alts, Examples |-> examples]

\* translation.LanguageDetectionResult; confidences are in hundredths
LDResult(lang, conf) == [Srclangs |-> <<lang>>, SrclangsConfidences |-> <<conf>>]

\* deeplx.TranslationResult
TranslationResult(success, text, sl, tl, msg) ==
    [Success |-> success, TranslatedText |-> text, SourceLang |-> sl,
     TargetLang |-> tl, ErrorMessage |-> msg]

\* ------------------------------------------------------------------------
\* GoogleTranslator: the format adapter
\* ------------------------------------------------------------------------

\* a conversion that copies the reported source language as it is
convertToGoogleFormatRawSource(originalText, result, dt) ==
    LET detectedLang == result.SourceLang
        sT == IF Includes(dt, DtT)
              THEN <<Sentence(originalText, result.TranslatedText, 1, Empty, Empty)>>
              ELSE <<>>
        sRm == IF Includes(dt, DtRm)
               THEN <<Sentence(Empty, Empty, 0, originalText, ToUpper(originalText))>>
               ELSE <<>>
        dict == IF Includes(dt, DtBd)
                THEN <<[Pos |-> s_translation,
                        Entry |-> <<[Word |-> result.TranslatedText,
                                     ReverseTranslation |-> <<originalText>>,
                                     Score |-> 95]>>]>>
                ELSE <<>>
        spell == IF Includes(dt, DtQca) THEN Some([SpellRes |-> originalText]) ELSE None
        examples == IF Includes(dt, DtEx) THEN Some([Examples |-> <<>>]) ELSE None
    IN  Response(detectedLang, sT \o sRm, dict, spell,
                 Some(LDResult(detectedLang, 99)), <<>>, examples)

\* a conversion that puts the transliteration entry before the translation
convertToGoogleFormatTranslitFirst(originalText, result, dt) ==
    LET norm == NormalizeLanguageCode(result.SourceLang)
        detectedLang == IF norm = Empty THEN DetectLanguage(originalText, Empty) ELSE norm
        sT == IF Includes(dt, DtT)
              THEN <<Sentence(originalText, result.TranslatedText, 1, Empty, Empty)>>
              ELSE <<>>
        sRm == IF Includes(dt, DtRm)
               THEN <<Sentence(Empty, Empty, 0, originalText, ToUpper(originalText))>>
               ELSE <<>>
        dict == IF Includes(dt, DtBd)
                THEN <<[Pos |-> s_translation,
                        Entry |-> <<[Word |-> result.TranslatedText,
                                     ReverseTranslation |-> <<originalText>>,
                                     Score |-> 95]>>]>>
                ELSE <<>>
        spell == IF Includes(dt, DtQca) THEN Some([SpellRes |-> originalText]) ELSE None
        examples == IF Includes(dt, DtEx) THEN Some([Examples |-> <<>>]) ELSE None
    IN  Response(detectedLang, sRm \o sT, dict, spell,
                 Some(LDResult(detectedLang, 99)), <<>>, examples)

convertToGoogleFormat(originalText, result, dt) ==
    LET norm == NormalizeLanguageCode(result.SourceLang)
        detectedLang == IF norm = Empty THEN DetectLanguage(originalText, Empty) ELSE norm
        sT == IF Includes(dt, DtT)
              THEN <<Sentence(originalText, result.TranslatedText, 1, Empty, Empty)>>
              ELSE <<>>
        sRm == IF Includes(dt, DtRm)
               THEN <<Sentence(Empty, Empty, 0, originalText, ToUpper(originalText))>>
               ELSE <<>>
        dict == IF Includes(dt, DtBd)
                THEN <<[Pos |-> s_translation,
                        Entry |-> <<[Word |-> result.TranslatedText,
                                     ReverseTranslation |-> <<originalText>>,
                                     Score |-> 95]>>]>>
                ELSE <<>>
        spell == IF Includes(dt, DtQca) THEN Some([SpellRes |-> originalText]) ELSE None
        examples == IF Includes(dt, DtEx) THEN Some([Examples |-> <<>>]) ELSE None
    IN  Response(detectedLang, sT \o sRm, dict, spell,
                 Some(LDResult(detectedLang, 99)), <<>>, examples)

\* an error response whose sentence pair leaves the translation empty
buildErrorResponseNoEcho(q, sl, tl) ==
    Response(sl, <<Sentence(q, Empty, 0, Empty, Empty)>>, <<>>, None,
             Some(LDResult(sl, 50)), <<>>, None)

buildErrorResponse(q, sl, tl) ==
    LET detectedLang == IF sl = Empty \/ EqualFold(sl, s_auto)
                        THEN DetectLanguage(q, sl)
                        ELSE sl
    IN  Response(detectedLang, <<Sentence(q, q, 0, Empty, Empty)>>, <<>>, None,
                 Some(LDResult(detectedLang, 50)), <<>>, None)

\* doTranslate that reports a failed outcome as an error
doTranslateReturnError(q, sl, tl, dt, result) ==
    IF ~result.Success
    THEN [resp |-> None, err |-> result.ErrorMessage]
    ELSE [resp |-> Some(convertToGoogleFormat(q, result, dt)), err |-> NoErr]

\* the tail of GoogleTranslator.doTranslate: what it returns for an outcome
doTranslateReturn(q, sl, tl, dt, result) ==
    IF ~result.Success
    THEN [resp |-> Some(buildErrorResponse(q, sl, tl)), err |-> NoErr]
    ELSE [resp |-> Some(convertToGoogleFormat(q, result, dt)), err |-> NoErr]

\* the source-language argument doTranslate hands to the client ("" = none)
doTranslateSourceLang(sl) ==
    IF sl # Empty /\ ~EqualFold(sl, s_auto) THEN sl ELSE Empty

\* deeplx.TranslationRequest built by TranslateWithContext / ...ModelContext
TranslationRequest(text, targetLang, sourceLang) ==
    [Text |-> text,
     TargetLang |-> ToUpper(targetLang),
     SourceLang |-> IF sourceLang # Empty THEN ToUpper(sourceLang) ELSE Empty]

\* ------------------------------------------------------------------------
\* cache.KeyGenerator
\* ------------------------------------------------------------------------

\* the string computeHash feeds to SHA-256
PreDigest(text, sourceLang, targetLang, model) ==
    TrimSpace(text) \o Bar \o ToLower(TrimSpace(sourceLang)) \o Bar
        \o ToLower(TrimSpace(targetLang)) \o Bar \o ToLower(TrimSpace(model))

\* a digest over the text as given, not trimmed
computeHashRawText(text, sourceLang, targetLang, model) ==
    text \o Bar \o ToLower(TrimSpace(sourceLang)) \o Bar
        \o ToLower(TrimSpace(targetLang)) \o Bar \o ToLower(TrimSpace(model))

\* a digest that leaves the model out
computeHashNoModel(text, sourceLang, targetLang, model) ==
    TrimSpace(text) \o Bar \o ToLower(TrimSpace(sourceLang)) \o Bar
        \o ToLower(TrimSpace(targetLang))

\* the truncated SHA-256 digest, taken as collision-free: one digest per input
computeHash(text, sourceLang, targetLang, model) ==
    PreDigest(text, sourceLang, targetLang, model)

Generate(share, service, text, sourceLang, targetLang, model) ==
    LET hash == computeHash(text, sourceLang, targetLang, model)
    IN  IF share
        THEN KeyPrefix \o Colon \o SharedServiceName \o Colon \o hash
        ELSE KeyPrefix \o Colon \o ToLower(service) \o Colon \o hash

\* ------------------------------------------------------------------------
\* cache.CachedTranslation and its JSON encoding
\* ------------------------------------------------------------------------

CachedTranslation(orig, sl, tl, text, alts, service, model, version) ==
    [OriginalText |-> orig, SourceLang |-> sl, TargetLang |-> tl,
     TranslatedText |-> text, Alternatives |-> alts, Service |-> service,
     Model |-> model, Version |-> version]

\* strings.Join of the translations of all sentences (the += loop)
RECURSIVE ConcatTrans(_)
ConcatTrans(sentences) ==
    IF sentences = <<>> THEN Empty
    ELSE Head(sentences).Trans \o ConcatTrans(Tail(sentences))

\* a filter that drops the empty candidates only
RECURSIVE KeepAlternativesNonEmpty(_, _)
KeepAlternativesNonEmpty(alternative, translatedText) ==
    IF alternative = <<>> THEN <<>>
    ELSE LET a == Head(alternative).WordPostproc
             rest == KeepAlternativesNonEmpty(Tail(alternative), translatedText)
         IN  IF a # Empty THEN <<a>> \o rest ELSE rest

\* the candidate texts of one AlternativeTranslation that are kept
RECURSIVE KeepAlternatives(_, _)
KeepAlternatives(alternative, translatedText) ==
    IF alternative = <<>> THEN <<>>
    ELSE LET a == Head(alternative).WordPostproc
             rest == KeepAlternatives(Tail(alternative), translatedText)
         IN  IF a # Empty /\ a # translatedText THEN <<a>> \o rest ELSE rest

\* the nested loops over resp.AlternativeTranslations
RECURSIVE CollectAlternatives(_, _)
CollectAlternatives(alts, translatedText) ==
    IF alts = <<>> THEN <<>>
    ELSE KeepAlternatives(Head(alts).Alternative, translatedText)
             \o CollectAlternatives(Tail(alts), translatedText)

buildCachedTranslation(serviceName, originalText, sourceLang, targetLang, model, resp) ==
    LET translatedText == ConcatTrans(resp.Sentences)
    IN  CachedTranslation(
            originalText,
            IF resp.Src = Empty THEN sourceLang ELSE resp.Src,
            targetLang,
            translatedText,
            CollectAlternatives(resp.AlternativeTranslations, translatedText),
            serviceName,
            model,
            CacheFormatVersion)

RECURSIVE ToAlternatives(_)
ToAlternatives(alts) ==
    IF alts = <<>> THEN <<>>
    ELSE <<[WordPostproc |-> Head(alts)]>> \o ToAlternatives(Tail(alts))

\* buildResponseFromCache that forgets the alternatives of the entry
buildResponseFromCacheNoAlternatives(cached) ==
    Response(cached.SourceLang,
             <<Sentence(cached.OriginalText, cached.TranslatedText, 0, Empty, Empty)>>,
             <<>>, None, None, <<>>, None)

buildResponseFromCache(cached) ==
    Response(cached.SourceLang,
             <<Sentence(cached.OriginalText, cached.TranslatedText, 0, Empty, Empty)>>,
             <<>>, None, None,
             IF Len(cached.Alternatives) > 0
             THEN <<[SrcPhrase |-> cached.OriginalText,
                     Alternative |-> ToAlternatives(cached.Alternatives)]>>
             ELSE <<>>,
             None)

\* an entry whose version member is never written
JSONMembersNoVersion(cached) ==
    {"original_text", "source_lang", "target_lang", "translated_text",
     "service", "cached_at"}
        \cup (IF Len(cached.Alternatives) > 0 THEN {"alternatives"} ELSE {})
        \cup (IF cached.Model # Empty THEN {"model"} ELSE {})

\* the names of the JSON members json.Marshal writes for an entry: the
\* members tagged omitempty are left out when empty
JSONMembers(cached) ==
    {"original_text", "source_lang", "target_lang", "translated_text",
     "service", "cached_at", "version"}
        \cup (IF Len(cached.Alternatives) > 0 THEN {"alternatives"} ELSE {})
        \cup (IF cached.Model # Empty THEN {"model"} ELSE {})

\* an encoding that writes the original text into translated_text
MarshalOriginalAsTranslated(cached) ==
    [json |-> TRUE,
     members |-> JSONMembers(cached),
     original_text |-> cached.OriginalText,
     source_lang |-> cached.SourceLang,
     target_lang |-> cached.TargetLang,
     translated_text |-> cached.OriginalText,
     alternatives |-> cached.Alternatives,
     service |-> cached.Service,
     model |-> cached.Model,
     version |-> cached.Version]

\* json.Marshal(cached): a JSON document is the set of its members
Marshal(cached) ==
    [json |-> TRUE,
     members |-> JSONMembers(cached),
     original_text |-> cached.OriginalText,
     source_lang |-> cached.SourceLang,
     target_lang |-> cached.TargetLang,
     translated_text |-> cached.TranslatedText,
     alternatives |-> cached.Alternatives,
     service |-> cached.Service,
     model |-> cached.Model,
     version |-> cached.Version]

\* bytes that are no JSON document
CorruptPayload ==
    [json |-> FALSE, members |-> {}, original_text |-> Empty, source_lang |-> Empty,
     target_lang |-> Empty, translated_text |-> Empty, alternatives |-> <<>>,
     service |-> Empty, model |-> Empty, version |-> 0]

\* json.Unmarshal(data, &cached): an absent member leaves the zero value
Unmarshal(data) ==
    IF ~data.json THEN [err |-> "unmarshal", cached |-> None]
    ELSE [err |-> NoErr,
          cached |-> Some(CachedTranslation(
              IF "original_text" \in data.members THEN data.original_text ELSE Empty,
              IF "source_lang" \in data.members THEN data.source_lang ELSE Empty,
              IF "target_lang" \in data.members THEN data.target_lang ELSE Empty,
              IF "translated_text" \in data.members THEN data.translated_text ELSE Empty,
              IF "alternatives" \in data.members THEN data.alternatives ELSE <<>>,
              IF "service" \in data.members THEN data.service ELSE Empty,
              IF "model" \in data.members THEN data.model ELSE Empty,
              IF "version" \in data.members THEN data.version ELSE 0))]

\* getFromCache without the check of the format version
getFromCacheNoVersionCheck(getErr, data) ==
    IF getErr # NoErr THEN [cached |-> None, err |-> getErr]
    ELSE IF data = None THEN [cached |-> None, err |-> NoErr]
    ELSE LET u == Unmarshal(Val(data))
         IN  IF u.err # NoErr THEN [cached |-> None, err |-> u.err]
             ELSE [cached |-> u.cached, err |-> NoErr]

\* getFromCache that turns away only the entries of an older format
getFromCacheOlderOnly(getErr, data) ==
    IF getErr # NoErr THEN [cached |-> None, err |-> getErr]
    ELSE IF data = None THEN [cached |-> None, err |-> NoErr]
    ELSE LET u == Unmarshal(Val(data))
         IN  IF u.err # NoErr THEN [cached |-> None, err |-> u.err]
             ELSE IF Val(u.cached).Version < CacheFormatVersion
                  THEN [cached |-> None, err |-> NoErr]
                  ELSE [cached |-> u.cached, err |-> NoErr]

\* getFromCache after c.cache.Get returned (data, err): (entry, err)
getFromCache(getErr, data) ==
    IF getErr # NoErr THEN [cached |-> None, err |-> getErr]
    ELSE IF data = None THEN [cached |-> None, err |-> NoErr]
    ELSE LET u == Unmarshal(Val(data))
         IN  IF u.err # NoErr THEN [cached |-> None, err |-> u.err]
             ELSE IF Val(u.cached).Version # CacheFormatVersion
                  THEN [cached |-> None, err |-> NoErr]
                  ELSE [cached |-> u.cached, err |-> NoErr]

\* ------------------------------------------------------------------------
\* The system: configuration, requests, provider behaviour
\* ------------------------------------------------------------------------

Calls == 1..NumCalls

\* CachedServiceConfig plus the collaborators handed to
\* NewCachedTranslationService: the cache (nil or not) and the wrapped service
\* ("google" = GoogleTranslator over DeepLXTranslator, "stub" = any other
\* implementation of deeplx.TranslationService)
Config(enabled, hasCache, share, writeTimeout, ttl, provider) ==
    [Enabled |-> enabled, HasCache |-> hasCache, ShareAcrossServices |-> share,
     WriteTimeout |-> writeTimeout, TTL |-> ttl, provider |-> provider]

\* the arguments of one TranslateWithModel call
Request(q, sl, tl, dt, model) == [q |-> q, sl |-> sl, tl |-> tl, dt |-> dt, model |-> model]

\* "hi" to ZH; " hi" to zh with more blocks (the same cache key); and a
\* request with another key
FirstRequest == Request(s_hi, s_auto, s_ZH, <<DtT>>, Empty)

Requests ==
    {FirstRequest,
     Request(s_sp_hi, s_AUTO, s_zh, <<DtT, DtBd, DtQca>>, Empty),
     Request(s_ni, Empty, s_EN, <<DtT, DtRm>>, s_g4)}

NoRequest == Request(Empty, Empty, Empty, <<>>, Empty)

\* what one HTTP attempt can end in.  kind: "ok" (200 and a decodable body),
\* "transport" (httpClient.Do failed; transient = net.Error with Timeout() or
\* Temporary()), "read" (reading the body failed), "status" (a status other
\* than 200), "decode" (200 with a body that is no JSON document)
HTTPOutcome(kind, transient, status, data, sourceLang) ==
    [kind |-> kind, transient |-> transient, status |-> status,
     data |-> data, sourceLang |-> sourceLang]

OutOK == HTTPOutcome("ok", FALSE, StatusOK, s_T1, s_EN)
Out500 == HTTPOutcome("status", FALSE, 500, Empty, Empty)
Out400 == HTTPOutcome("status", FALSE, 400, Empty, Empty)

HTTPOutcomes ==
    {OutOK,
     HTTPOutcome("ok", FALSE, StatusOK, s_T2, Empty),
     HTTPOutcome("transport", TRUE, 0, Empty, Empty),
     HTTPOutcome("transport", FALSE, 0, Empty, Empty),
     HTTPOutcome("read", FALSE, StatusOK, Empty, Empty),
     Out500,
     HTTPOutcome("status", FALSE, 503, Empty, Empty),
     Out400,
     HTTPOutcome("decode", FALSE, StatusOK, Empty, Empty)}

\* the transport error of an attempt whose context was cancelled in flight:
\* context.DeadlineExceeded reports Timeout(), context.Canceled does not
CtxOutcome(how) == HTTPOutcome("transport", how = "deadline", 0, Empty, Empty)

\* DeepLXTranslator.shouldRetry
shouldRetry(out) == out.kind = "transport" /\ out.transient

\* a status check that retries 503 (service unavailable) only
shouldRetryStatusOnly503(status) == status = 503

\* a status check that retries every error status, 4xx included
shouldRetryStatusAnyError(status) == status >= 400 /\ status < 600

\* DeepLXTranslator.shouldRetryStatus
shouldRetryStatus(status) == status >= 500 /\ status < 600

\* a backoff of one fixed step, whatever the attempt
backoffConstant(attempt) == 200

\* DeepLXTranslator.backoff, in milliseconds
backoff(attempt) == 200 * (attempt + 1)

\* the error message doRequest records for a failed attempt (lastErr)
AttemptError(out) ==
    CASE out.kind = "transport" -> IF out.transient THEN "request failed: timeout"
                                   ELSE "request failed"
      [] out.kind = "read" -> "read response failed"
      [] out.kind = "status" -> IF out.status = 500 THEN "HTTP 500"
                                ELSE IF out.status = 503 THEN "HTTP 503"
                                ELSE "HTTP 400"
      [] out.kind = "decode" -> "decode response failed"
      [] OTHER -> ""

\* a loop that compares the attempt with the maximum by <=
AttemptRetriesOnceMore(attempt, out) ==
    /\ attempt <= maxRetryAttempt
    /\ CASE out.kind = "transport" -> shouldRetry(out)
         [] out.kind = "read" -> TRUE
         [] out.kind = "status" -> shouldRetryStatus(out.status)
         [] out.kind = "decode" -> TRUE
         [] OTHER -> FALSE

\* a loop that gives up at once on a body it cannot decode
AttemptRetriesNoDecode(attempt, out) ==
    /\ attempt < maxRetryAttempt
    /\ CASE out.kind = "transport" -> shouldRetry(out)
         [] out.kind = "read" -> TRUE
         [] out.kind = "status" -> shouldRetryStatus(out.status)
         [] OTHER -> FALSE

\* whether the loop of doRequest goes on to another attempt after this one
AttemptRetries(attempt, out) ==
    /\ attempt < maxRetryAttempt
    /\ CASE out.kind = "transport" -> shouldRetry(out)
         [] out.kind = "read" -> TRUE
         [] out.kind = "status" -> shouldRetryStatus(out.status)
         [] out.kind = "decode" -> TRUE
         [] OTHER -> FALSE

\* a failed attempt that ends the loop without its error message
AttemptResultNoMessage(treq, out) ==
    IF out.kind = "ok"
    THEN TranslationResult(TRUE, out.data, out.sourceLang, treq.TargetLang, "")
    ELSE TranslationResult(FALSE, Empty, Empty, Empty, "")

\* the TranslationResult doRequest returns when an attempt ends the loop
AttemptResult(treq, out) ==
    IF out.kind = "ok"
    THEN TranslationResult(TRUE, out.data, out.sourceLang, treq.TargetLang, "")
    ELSE TranslationResult(FALSE, Empty, Empty, Empty, AttemptError(out))

\* the outcome of doRequest when ctx.Err() is non-nil before an attempt
CancelledResult == TranslationResult(FALSE, Empty, Empty, Empty, "request cancelled")

\* what an implementation of deeplx.TranslationService other than
\* GoogleTranslator may return for a request
StubResponse(r) ==
    Response(s_en,
             <<Sentence(r.q, s_T1, 1, Empty, Empty), Sentence(Empty, s_T2, 1, Empty, Empty)>>,
             <<>>, None, Some(LDResult(s_en, 99)),
             <<[SrcPhrase |-> r.q,
                Alternative |-> <<[WordPostproc |-> s_T1 \o s_T2],
                                  [WordPostproc |-> Empty],
                                  [WordPostproc |-> s_T2]>>]>>,
             None)

StubReturns(r) ==
    {[resp |-> Some(StubResponse(r)), err |-> NoErr],
     [resp |-> None, err |-> "provider error"],
     [resp |-> Some(StubResponse(r)), err |-> "provider error"],
     [resp |-> None, err |-> NoErr]}

\* ------------------------------------------------------------------------
\* State
\* ------------------------------------------------------------------------

VARIABLES
    cfg,         \* the configuration the service was constructed with
    upstream,    \* the provider's behaviour: what an HTTP attempt may end in
    cache,       \* the external store: key -> None or Some([data, ttl])
    cache0,      \* the store's content when the service was constructed
    crashed,     \* the process died of a panic in a goroutine
    closed,      \* the cache collaborator was closed (Close, Server.Shutdown)
    faults,      \* faults the environment has injected so far
    pc,          \* per call: "idle", "get", "inner", "done"
    req,         \* per call: its arguments
    ctx,         \* per call: the caller's context: "live", "canceled", "deadline"
    doneAtStart, \* per call: the calls that had returned when it was issued
    got,         \* per call: what the synchronous cache read produced (and the
                 \*           calls whose write had been stored by then)
    attempt,     \* per call: the loop variable of doRequest
    lastErr,     \* per call: lastErr of doRequest
    httpCalls,   \* per call: HTTP requests sent to the provider
    slept,       \* per call: the waits of time.Sleep in doRequest, in milliseconds
    innerCalls,  \* per call: invocations of the wrapped service
    outcome,     \* per call: the TranslationResult doRequest returned
    inner,       \* per call: what the wrapped service returned
    ret,         \* per call: what TranslateWithModel returned to the caller
    wstate,      \* per call: its detached write: "none", "scheduled", "saved",
                 \*           "set_failed", "set_closed", "timeout", "panicked"
    welapsed,    \* per call: seconds since its write context was created
    probe        \* the last application of the pure functions to given inputs

\* fixed at construction
setup == <<cfg, upstream, cache0>>

\* the retry loop of the client
client == <<attempt, lastErr, httpCalls, slept, outcome>>

\* the detached writes
writes == <<wstate, welapsed>>

vars == <<probe, setup, cache, crashed, closed, faults, pc, req, ctx, doneAtStart, got, client,
          innerCalls, inner, ret, writes>>

\* no function has been applied
NoProbe == [op |-> "none", r |-> NoRequest, result |-> None, first |-> None,
            entry |-> None, data |-> None, second |-> None]

\* g.name, the name of the wrapped service
NameOf(config) == IF config.provider = "google" THEN s_DeepLX ELSE s_Stub

\* c.service.GetName()
ServiceName == NameOf(cfg)

\* c.keyGenerator.Generate(serviceName, q, sl, tl, model)
KeyOf(r) == Generate(cfg.ShareAcrossServices, ServiceName, r.q, r.sl, r.tl, r.model)

\* NewCachedTranslationService: the write timeout in effect
writeTimeout ==
    IF cfg.WriteTimeout <= 0 THEN defaultCacheWriteTimeout ELSE cfg.WriteTimeout

\* a guard that looks only at the cache collaborator, not at the switch
CachingActiveIgnoresEnabled == cfg.HasCache

\* the guard of TranslateWithModel: caching is in effect
CachingActive == cfg.Enabled /\ cfg.HasCache

\* an entry as a previous run of the service left it for the first request,
\* with the format version it was written under
PriorEntry(config, version) ==
    [Marshal(CachedTranslation(FirstRequest.q, s_en, FirstRequest.tl, s_T1, <<s_T2>>,
                               NameOf(config), FirstRequest.model, CacheFormatVersion))
        EXCEPT !.version = version]

\* the payloads the store may hold under the first request's key at start:
\* a current entry, one of the previous format, one with an out-of-range
\* version, one without a version member, and bytes that are no JSON
PriorPayloads(config) ==
    {PriorEntry(config, CacheFormatVersion),
     PriorEntry(config, CacheFormatVersion - 1),
     PriorEntry(config, CacheFormatVersion + 1),
     PriorEntry(config, 0 - 7),
     [PriorEntry(config, CacheFormatVersion) EXCEPT !.members = @ \ {"version"}],
     CorruptPayload}

KeyIn(config, r) ==
    Generate(config.ShareAcrossServices, NameOf(config), r.q, r.sl, r.tl, r.model)

\* a start of the system: the configuration, the provider's behaviour and
\* what the store holds under the first request's key
Scenario(config, ups, prior) == [cfg |-> config, upstream |-> ups, prior |-> prior]

Stored(config, data) == Some([data |-> data, ttl |-> config.TTL])

Scenarios ==
    LET isolated == Config(TRUE, TRUE, FALSE, 1, 0, "google")
        shared == Config(TRUE, TRUE, TRUE, 0, 1, "google")
        stub == Config(TRUE, TRUE, FALSE, 1, 0, "stub")
        disabled == Config(FALSE, TRUE, FALSE, 0, 0, "google")
        nocache == Config(TRUE, FALSE, FALSE, 0, 0, "google")
        disabledStub == Config(FALSE, TRUE, FALSE, 0, 0, "stub")
    IN  {Scenario(isolated, {OutOK}, p) :
            p \in {None} \cup {Stored(isolated, d) : d \in PriorPayloads(isolated)}}
        \cup {Scenario(isolated, u, None) : u \in {{Out500}, {Out400}, {Out500, OutOK}}}
        \cup {Scenario(shared, {OutOK}, p) :
                p \in {None, Stored(shared, PriorEntry(shared, CacheFormatVersion))}}
        \cup {Scenario(stub, {}, None),
              Scenario(disabled, HTTPOutcomes,
                       Stored(disabled, PriorEntry(disabled, CacheFormatVersion))),
              Scenario(disabledStub, {},
                       Stored(disabledStub, PriorEntry(disabledStub, CacheFormatVersion))),
              Scenario(nocache, {OutOK}, None)}

Init ==
    /\ \E sc \in Scenarios :
          /\ cfg = sc.cfg
          /\ upstream = sc.upstream
          /\ cache = [k \in {KeyIn(sc.cfg, r) : r \in Requests} |->
                        IF k = KeyIn(sc.cfg, FirstRequest) THEN sc.prior ELSE None]
    /\ cache0 = cache
    /\ crashed = FALSE
    /\ closed = FALSE
    /\ faults = 0
    /\ pc = [c \in Calls |-> "idle"]
    /\ req = [c \in Calls |-> NoRequest]
    /\ ctx = [c \in Calls |-> "live"]
    /\ doneAtStart = [c \in Calls |-> {}]
    /\ got = [c \in Calls |-> [read |-> FALSE, key |-> Empty, getErr |-> NoErr,
                               data |-> None, cached |-> None, err |-> NoErr,
                               saved |-> {}]]
    /\ attempt = [c \in Calls |-> 0]
    /\ lastErr = [c \in Calls |-> ""]
    /\ httpCalls = [c \in Calls |-> 0]
    /\ slept = [c \in Calls |-> <<>>]
    /\ innerCalls = [c \in Calls |-> 0]
    /\ outcome = [c \in Calls |-> None]
    /\ inner = [c \in Calls |-> None]
    /\ ret = [c \in Calls |-> None]
    /\ wstate = [c \in Calls |-> "none"]
    /\ welapsed = [c \in Calls |-> 0]
    /\ probe = NoProbe

\* ------------------------------------------------------------------------
\* CachedTranslationService.TranslateWithModel
\* ------------------------------------------------------------------------

\* the requests call c may carry: the first call is the first request
RequestsOf(c) == IF c = 1 THEN {FirstRequest} ELSE Requests

\* the caller issues a call; with caching off it goes straight to the
\* wrapped service
Start(c, r) ==
    /\ ~crashed
    /\ pc[c] = "idle"
    /\ \A d \in Calls : d < c => pc[d] # "idle"
    /\ r \in RequestsOf(c)
    /\ req' = [req EXCEPT ![c] = r]
    /\ doneAtStart' = [doneAtStart EXCEPT ![c] = {d \in Calls : pc[d] = "done"}]
    /\ IF CachingActive
       THEN /\ pc' = [pc EXCEPT ![c] = "get"]
            /\ UNCHANGED innerCalls
       ELSE /\ pc' = [pc EXCEPT ![c] = "inner"]
            /\ innerCalls' = [innerCalls EXCEPT ![c] = @ + 1]
    /\ UNCHANGED <<probe, setup, cache, crashed, closed, faults, ctx, got, client, inner, ret, writes>>

\* the caller's context is cancelled or its deadline fires, while the call
\* or its detached write is under way
CancelCtx(c, how) ==
    /\ ~crashed
    /\ pc[c] # "idle"
    /\ pc[c] = "done" => wstate[c] = "scheduled"
    /\ ctx[c] = "live"
    /\ faults < MaxFaults
    /\ faults' = faults + 1
    /\ ctx' = [ctx EXCEPT ![c] = how]
    /\ UNCHANGED <<probe, setup, cache, crashed, closed, pc, req, doneAtStart, got, client,
                   innerCalls, inner, ret, writes>>

\* the errors c.cache.Get can return: a done context fails the read
GetErrors(c) ==
    IF ctx[c] # "live" THEN {"context done"}
    ELSE IF closed THEN {"client is closed"}
    ELSE {NoErr} \cup (IF faults < MaxFaults THEN {"redis get failed"} ELSE {})

\* the synchronous read: getFromCache, then the hit branch or the miss
CacheGet(c, getErr) ==
    /\ ~crashed
    /\ pc[c] = "get"
    /\ getErr \in GetErrors(c)
    /\ faults' = IF getErr = "redis get failed" THEN faults + 1 ELSE faults
    /\ LET key == KeyOf(req[c])
           data == IF getErr = NoErr /\ IsSome(cache[key])
                   THEN Some(Val(cache[key]).data)
                   ELSE None
           g == getFromCache(getErr, data)
       IN  /\ got' = [got EXCEPT ![c] = [read |-> TRUE, key |-> key, getErr |-> getErr,
                                         data |-> data,
                                         cached |-> g.cached, err |-> g.err,
                                         saved |-> {d \in Calls : wstate[d] = "saved"}]]
           /\ IF g.err = NoErr /\ IsSome(g.cached)
              THEN /\ ret' = [ret EXCEPT ![c] =
                                 Some([resp |-> Some(buildResponseFromCache(Val(g.cached))),
                                       err |-> NoErr])]
                   /\ pc' = [pc EXCEPT ![c] = "done"]
                   /\ UNCHANGED innerCalls
              ELSE /\ pc' = [pc EXCEPT ![c] = "inner"]
                   /\ innerCalls' = [innerCalls EXCEPT ![c] = @ + 1]
                   /\ UNCHANGED ret
    /\ UNCHANGED <<probe, setup, cache, crashed, closed, req, ctx, doneAtStart, client, inner, writes>>

\* TranslateWithModel that hands back what a later hit would serve: the
\* language detection block of the wrapped service's response is dropped
AfterInnerAsServedFromCache(active, innerRet) ==
    IF ~active THEN [ret |-> innerRet, spawn |-> FALSE]
    ELSE IF innerRet.err # NoErr
         THEN [ret |-> [resp |-> None, err |-> innerRet.err], spawn |-> FALSE]
         ELSE [ret |-> [resp |-> IF innerRet.resp = None THEN None
                                 ELSE Some([Val(innerRet.resp) EXCEPT !.LDResult = None]),
                        err |-> NoErr],
               spawn |-> TRUE]

\* TranslateWithModel that starts the write before it looks at the error
AfterInnerWriteFirst(active, innerRet) ==
    IF ~active THEN [ret |-> innerRet, spawn |-> FALSE]
    ELSE IF innerRet.err # NoErr
         THEN [ret |-> [resp |-> None, err |-> innerRet.err], spawn |-> TRUE]
         ELSE [ret |-> innerRet, spawn |-> TRUE]

\* what TranslateWithModel does with the wrapped service's return value:
\* the value it returns and whether it starts the detached write
AfterInner(active, innerRet) ==
    IF ~active THEN [ret |-> innerRet, spawn |-> FALSE]
    ELSE IF innerRet.err # NoErr
         THEN [ret |-> [resp |-> None, err |-> innerRet.err], spawn |-> FALSE]
         ELSE [ret |-> innerRet, spawn |-> TRUE]

\* the wrapped service returned innerRet to call c
Return(c, innerRet) ==
    LET a == AfterInner(CachingActive, innerRet)
    IN  /\ inner' = [inner EXCEPT ![c] = Some(innerRet)]
        /\ ret' = [ret EXCEPT ![c] = Some(a.ret)]
        /\ wstate' = [wstate EXCEPT ![c] = IF a.spawn THEN "scheduled" ELSE "none"]
        /\ pc' = [pc EXCEPT ![c] = "done"]
        /\ UNCHANGED welapsed

\* ------------------------------------------------------------------------
\* GoogleTranslator.doTranslate over DeepLXTranslator.doRequest
\* ------------------------------------------------------------------------

\* doRequest ended with result: the adapter converts it and the decorator returns
Finish(c, result) ==
    /\ outcome' = [outcome EXCEPT ![c] = Some(result)]
    /\ Return(c, doTranslateReturn(req[c].q, req[c].sl, req[c].tl, req[c].dt, result))

\* a loop that never looks at the caller's context
CtxErrNotChecked(c) == FALSE

\* ctx.Err() != nil at the top of an iteration of the loop of doRequest
CtxErr(c) == ctx[c] # "live"

\* a loop that records the error of the first failed attempt only and
\* returns that one when it gives up
AttemptKeepsFirstError(c, out, cancelDuring) ==
    /\ ~crashed
    /\ pc[c] = "inner"
    /\ cfg.provider = "google"
    /\ LET treq == TranslationRequest(req[c].q, req[c].tl, doTranslateSourceLang(req[c].sl))
           first == IF lastErr[c] = "" THEN AttemptError(out) ELSE lastErr[c]
       IN  IF CtxErr(c)
           THEN /\ out = CtxOutcome(ctx[c])
                /\ cancelDuring = "none"
                /\ Finish(c, CancelledResult)
                /\ UNCHANGED <<attempt, lastErr, httpCalls, slept, ctx, faults>>
           ELSE /\ IF cancelDuring = "none"
                   THEN out \in upstream /\ UNCHANGED <<ctx, faults>>
                   ELSE /\ out = CtxOutcome(cancelDuring)
                        /\ faults < MaxFaults
                        /\ faults' = faults + 1
                        /\ ctx' = [ctx EXCEPT ![c] = cancelDuring]
                /\ httpCalls' = [httpCalls EXCEPT ![c] = @ + 1]
                /\ lastErr' = [lastErr EXCEPT ![c] =
                                  IF out.kind = "ok" THEN @ ELSE first]
                /\ IF AttemptRetries(attempt[c], out)
                   THEN /\ slept' = [slept EXCEPT ![c] = Append(@, backoff(attempt[c]))]
                        /\ attempt' = [attempt EXCEPT ![c] = @ + 1]
                        /\ UNCHANGED <<outcome, inner, ret, writes, pc>>
                   ELSE /\ Finish(c, IF out.kind = "ok" THEN AttemptResult(treq, out)
                                     ELSE TranslationResult(FALSE, Empty, Empty, Empty, first))
                        /\ UNCHANGED <<attempt, slept>>
    /\ UNCHANGED <<probe, setup, cache, crashed, closed, req, doneAtStart, got, innerCalls>>

\* one iteration of the loop of doRequest.  cancelDuring: the caller's
\* context ends while the HTTP request is in flight ("none" if it does not)
Attempt(c, out, cancelDuring) ==
    /\ ~crashed
    /\ pc[c] = "inner"
    /\ cfg.provider = "google"
    /\ LET treq == TranslationRequest(req[c].q, req[c].tl, doTranslateSourceLang(req[c].sl))
       IN  IF CtxErr(c)
           THEN /\ out = CtxOutcome(ctx[c])
                /\ cancelDuring = "none"
                /\ Finish(c, CancelledResult)
                /\ UNCHANGED <<attempt, lastErr, httpCalls, slept, ctx, faults>>
           ELSE /\ IF cancelDuring = "none"
                   THEN out \in upstream /\ UNCHANGED <<ctx, faults>>
                   ELSE /\ out = CtxOutcome(cancelDuring)
                        /\ faults < MaxFaults
                        /\ faults' = faults + 1
                        /\ ctx' = [ctx EXCEPT ![c] = cancelDuring]
                /\ httpCalls' = [httpCalls EXCEPT ![c] = @ + 1]
                /\ lastErr' = [lastErr EXCEPT ![c] =
                                  IF out.kind = "ok" THEN @ ELSE AttemptError(out)]
                /\ IF AttemptRetries(attempt[c], out)
                   THEN /\ slept' = [slept EXCEPT ![c] = Append(@, backoff(attempt[c]))]
                        /\ attempt' = [attempt EXCEPT ![c] = @ + 1]
                        /\ UNCHANGED <<outcome, inner, ret, writes, pc>>
                   ELSE /\ Finish(c, AttemptResult(treq, out))
                        /\ UNCHANGED <<attempt, slept>>
    /\ UNCHANGED <<probe, setup, cache, crashed, closed, req, doneAtStart, got, innerCalls>>

\* a wrapped service other than GoogleTranslator answers
InnerStub(c, innerRet) ==
    /\ ~crashed
    /\ pc[c] = "inner"
    /\ cfg.provider = "stub"
    /\ innerRet \in StubReturns(req[c])
    /\ Return(c, innerRet)
    /\ UNCHANGED <<probe, setup, cache, crashed, closed, faults, req, ctx, doneAtStart, got, client,
                   innerCalls>>

\* ------------------------------------------------------------------------
\* The detached write: saveToCacheWithTimeout / saveToCache
\* ------------------------------------------------------------------------

\* a write context derived from the caller's context
WriteCtxDoneWithCaller(c) == welapsed[c] >= writeTimeout \/ ctx[c] # "live"

\* the write's own context, context.WithTimeout(context.Background(),
\* c.writeTimeout), is done
WriteCtxDone(c) == welapsed[c] >= writeTimeout

\* a second passes while the write of call c has not finished
WriteTick(c) ==
    /\ ~crashed
    /\ wstate[c] = "scheduled"
    /\ ~WriteCtxDone(c)
    /\ welapsed' = [welapsed EXCEPT ![c] = @ + 1]
    /\ UNCHANGED <<probe, setup, cache, crashed, closed, faults, pc, req, ctx, doneAtStart, got, client,
                   innerCalls, inner, ret, wstate>>

\* what c.cache.Set can do: "ok" stores the value, "error" is a store
\* error, "timeout" is the write context's deadline
SetOutcomes(c) ==
    IF closed THEN {"closed"}
    ELSE (IF WriteCtxDone(c) THEN {"timeout"} ELSE {"ok"})
             \cup (IF faults < MaxFaults THEN {"error"} ELSE {})

\* a write that stores every entry under the key of the first request
SaveToCacheUnderFirstKey(c, setOutcome) ==
    /\ ~crashed
    /\ wstate[c] = "scheduled"
    /\ LET resp == Val(ret[c]).resp
           r == req[c]
       IN  IF resp = None
           THEN \* resp.Src on a nil *translation.Response: the goroutine panics
                /\ setOutcome = "error"
                /\ wstate' = [wstate EXCEPT ![c] = "panicked"]
                /\ crashed' = TRUE
                /\ UNCHANGED <<cache, faults>>
           ELSE LET cached == buildCachedTranslation(ServiceName, r.q, r.sl, r.tl,
                                                     r.model, Val(resp))
                    data == Marshal(cached)
                IN  /\ setOutcome \in SetOutcomes(c)
                    /\ faults' = IF setOutcome = "error" THEN faults + 1 ELSE faults
                    /\ UNCHANGED crashed
                    /\ IF setOutcome = "ok"
                       THEN /\ cache' = [cache EXCEPT ![KeyOf(FirstRequest)] =
                                            Some([data |-> data, ttl |-> cfg.TTL])]
                            /\ wstate' = [wstate EXCEPT ![c] = "saved"]
                       ELSE /\ UNCHANGED cache
                            /\ wstate' = [wstate EXCEPT ![c] =
                                             IF setOutcome = "timeout" THEN "timeout"
                                             ELSE IF setOutcome = "closed" THEN "set_closed"
                                             ELSE "set_failed"]
    /\ UNCHANGED <<probe, setup, closed, pc, req, ctx, doneAtStart, got, client, innerCalls, inner, ret,
                   welapsed>>

\* the goroutine runs saveToCache to its end
SaveToCache(c, setOutcome) ==
    /\ ~crashed
    /\ wstate[c] = "scheduled"
    /\ LET resp == Val(ret[c]).resp
           r == req[c]
       IN  IF resp = None
           THEN \* resp.Src on a nil *translation.Response: the goroutine panics
                /\ setOutcome = "error"
                /\ wstate' = [wstate EXCEPT ![c] = "panicked"]
                /\ crashed' = TRUE
                /\ UNCHANGED <<cache, faults>>
           ELSE LET cached == buildCachedTranslation(ServiceName, r.q, r.sl, r.tl,
                                                     r.model, Val(resp))
                    data == Marshal(cached)
                IN  /\ setOutcome \in SetOutcomes(c)
                    /\ faults' = IF setOutcome = "error" THEN faults + 1 ELSE faults
                    /\ UNCHANGED crashed
                    /\ IF setOutcome = "ok"
                       THEN /\ cache' = [cache EXCEPT ![got[c].key] =
                                            Some([data |-> data, ttl |-> cfg.TTL])]
                            /\ wstate' = [wstate EXCEPT ![c] = "saved"]
                       ELSE /\ UNCHANGED cache
                            /\ wstate' = [wstate EXCEPT ![c] =
                                             IF setOutcome = "timeout" THEN "timeout"
                                             ELSE IF setOutcome = "closed" THEN "set_closed"
                                             ELSE "set_failed"]
    /\ UNCHANGED <<probe, setup, closed, pc, req, ctx, doneAtStart, got, client, innerCalls, inner, ret,
                   welapsed>>

\* CachedTranslationService.Close, and the first statement of
\* Server.Shutdown: the cache collaborator is closed, whatever calls and
\* detached writes are under way; the store keeps its entries
Close ==
    /\ ~crashed
    /\ ~closed
    /\ cfg.HasCache
    /\ faults < MaxFaults
    /\ faults' = faults + 1
    /\ closed' = TRUE
    /\ UNCHANGED <<probe, setup, cache, crashed, pc, req, ctx, doneAtStart, got, client,
                   innerCalls, inner, ret, writes>>

\* the store evicts an entry whose TTL ran out (ttl 0: never)
Expire(k) ==
    /\ ~crashed
    /\ k \in DOMAIN cache
    /\ IsSome(cache[k])
    /\ Val(cache[k]).ttl > 0
    /\ cache' = [cache EXCEPT ![k] = None]
    /\ UNCHANGED <<probe, setup, crashed, closed, faults, pc, req, ctx, doneAtStart, got, client,
                   innerCalls, inner, ret, writes>>

Next ==
    \/ \E c \in Calls, r \in Requests : Start(c, r)
    \/ \E c \in Calls, how \in {"canceled", "deadline"} : CancelCtx(c, how)
    \/ \E c \in Calls, e \in {NoErr, "redis get failed", "context done", "client is closed"} :
          CacheGet(c, e)
    \/ \E c \in Calls, out \in HTTPOutcomes \cup {CtxOutcome("canceled")},
          cd \in {"none", "canceled", "deadline"} : Attempt(c, out, cd)
    \/ \E c \in Calls, i \in UNION {StubReturns(r) : r \in Requests} : InnerStub(c, i)
    \/ \E c \in Calls : WriteTick(c)
    \/ \E c \in Calls, o \in {"ok", "error", "timeout", "closed"} : SaveToCache(c, o)
    \/ \E k \in DOMAIN cache : Expire(k)
    \/ Close

Spec == Init /\ [][Next]_vars

\* ------------------------------------------------------------------------
\* The pure functions of the adapter and of the cache entry, applied to
\* inputs from bounded sets
\* ------------------------------------------------------------------------

\* the field sets (dt) of the requests: every single token, none, some
\* together, and a token the adapter does not know
ProbeFieldSets ==
    {<<>>, <<DtT>>, <<DtRm>>, <<DtBd>>, <<DtQca>>, <<DtEx>>, <<DtT, DtRm>>,
     <<DtRm, DtT>>, <<DtT, DtBd, DtQca>>, <<DtT, DtRm, DtBd, DtQca, DtEx>>, <<"at">>}

\* requests with a non-empty target language
ProbeRequests ==
    {Request(q, sl, tl, dt, model) :
        q \in {s_hi, s_sp_hi, s_ni}, sl \in {Empty, s_auto, s_EN, s_zh_hans},
        tl \in {s_ZH, s_en_GB}, dt \in ProbeFieldSets, model \in {Empty, s_g4}}

\* the outcomes doRequest can return for a request of the adapter
ClientResults(r) ==
    LET treq == TranslationRequest(r.q, r.tl, doTranslateSourceLang(r.sl))
    IN  {AttemptResult(treq, out) :
            out \in HTTPOutcomes \cup {CtxOutcome("canceled"), CtxOutcome("deadline")}}
        \cup {CancelledResult}

\* entries a store may hold: of the current and of other format versions
ProbeEntries ==
    {CachedTranslation(orig, sl, s_ZH, text, alts, s_DeepLX, model, version) :
        orig \in {s_hi, s_ni}, sl \in {s_en, Empty}, text \in {Empty, s_T1, s_T2, s_hi},
        alts \in {<<>>, <<s_T2>>, <<s_T1, s_T2>>}, model \in {Empty, s_g4},
        version \in {CacheFormatVersion - 1, CacheFormatVersion, CacheFormatVersion + 1}}

\* what a hit on the payload data returns (None: the payload is no hit)
ServedFrom(data) ==
    LET g == getFromCache(NoErr, Some(data))
    IN  IF IsSome(g.cached)
        THEN Some([resp |-> Some(buildResponseFromCache(Val(g.cached))), err |-> NoErr])
        ELSE None

\* the same call issued twice through the decorator over GoogleTranslator,
\* the client returning result to the first and the write of the first
\* being stored before the read of the second: first is what the miss
\* returns, entry and data what saveToCache stores, second what the hit
\* returns
TranslateTwice(r, result) ==
    /\ probe = NoProbe
    /\ r \in ProbeRequests
    /\ result \in ClientResults(r)
    /\ LET a == AfterInner(TRUE, doTranslateReturn(r.q, r.sl, r.tl, r.dt, result))
           entry == buildCachedTranslation(ServiceName, r.q, r.sl, r.tl, r.model,
                                           Val(a.ret.resp))
       IN  /\ a.spawn
           /\ probe' = [op |-> "twice", r |-> r, result |-> Some(result),
                        first |-> Some(a.ret), entry |-> Some(entry),
                        data |-> Some(Marshal(entry)),
                        second |-> ServedFrom(Marshal(entry))]
    /\ UNCHANGED <<setup, cache, crashed, closed, faults, pc, req, ctx, doneAtStart, got, client,
                   innerCalls, inner, ret, writes>>

\* an entry is serialized and stored, then read back, deserialized and
\* checked by getFromCache and rebuilt into a response
StoreAndReadBack(entry) ==
    /\ probe = NoProbe
    /\ entry \in ProbeEntries
    /\ probe' = [op |-> "roundtrip", r |-> NoRequest, result |-> None, first |-> None,
                 entry |-> Some(entry), data |-> Some(Marshal(entry)),
                 second |-> ServedFrom(Marshal(entry))]
    /\ UNCHANGED <<setup, cache, crashed, closed, faults, pc, req, ctx, doneAtStart, got, client,
                   innerCalls, inner, ret, writes>>

\* ------------------------------------------------------------------------
\* key derivation applied to pairs of calls
\* ------------------------------------------------------------------------

\* one call as the key derivation sees it: the name of the wrapped service
\* and the request
KeyInput(service, r) == [service |-> service, r |-> r]

\* first calls of a pair; the last one has the separator of the digest's
\* input in its text
KeyInputsA ==
    {KeyInput(s_DeepLX, Request(q, sl, s_zh, <<DtT>>, model)) :
        q \in {s_hi, s_ni}, sl \in {s_auto, s_en}, model \in {Empty, s_g4}}
    \cup {KeyInput(s_DeepLX, Request(s_hi \o Bar \o s_en, s_zh, s_zh, <<DtT>>, Empty))}

\* second calls of a pair: other spellings of the same inputs, other
\* inputs, other field sets; the last one has the separator in its source
\* language
KeyInputsB ==
    {KeyInput(service, Request(q, sl, tl, dt, model)) :
        service \in {s_DeepLX, ToLower(s_DeepLX), s_Stub},
        q \in {s_hi, s_sp_hi, s_ni}, sl \in {s_auto, s_AUTO, s_en},
        tl \in {s_zh, s_ZH, s_en_GB}, dt \in {<<DtT>>, <<DtT, DtRm>>},
        model \in {Empty, s_g4}}
    \cup {KeyInput(s_DeepLX, Request(s_hi, s_en \o Bar \o s_zh, s_zh, <<DtT>>, Empty))}

\* the key TranslateWithModel derives for a call
KeyFor(share, a) == Generate(share, a.service, a.r.q, a.r.sl, a.r.tl, a.r.model)

\* the keys of two calls are derived, in both orders
DeriveKeys(share, a, b) ==
    /\ probe = NoProbe
    /\ a \in KeyInputsA
    /\ b \in KeyInputsB
    /\ probe' = [op |-> "keys", share |-> share, a |-> a, b |-> b,
                 keys |-> <<KeyFor(share, a), KeyFor(share, b), KeyFor(share, a)>>]
    /\ UNCHANGED <<setup, cache, crashed, closed, faults, pc, req, ctx, doneAtStart, got, client,
                   innerCalls, inner, ret, writes>>

\* ------------------------------------------------------------------------
\* language detection applied to a text and a requested language
\* ------------------------------------------------------------------------

\* texts: empty, Latin, Han, Hiragana, Katakana, Hangul, Cyrillic, blanks
\* and punctuation, and mixtures in several orders
DetectTexts ==
    {Empty, s_hi, s_ni, <<12371, 12435>>, <<12459, 12479>>, <<50504, 45397>>,
     <<1055, 1088>>, <<32, 33>>, <<104, 12371, 20320>>, <<20320, 12371>>,
     <<32, 50504, 1055>>, <<1055, 50504>>, <<12459, 13312>>, <<131072, 44032>>}

\* requested languages: none, blank, the auto sentinel in three spellings
\* and with a blank before it, codes in and outside the code table
DetectRequested ==
    {Empty, <<32>>, s_auto, s_AUTO, <<65, 117, 116, 111>>, <<32>> \o s_auto,
     s_EN, s_zh_hans, s_en_GB, ToUpper(s_fr), s_g4}

\* DetectLanguage is applied once
DetectOnce(text, requested) ==
    /\ probe = NoProbe
    /\ text \in DetectTexts
    /\ requested \in DetectRequested
    /\ probe' = [op |-> "detect", text |-> text, requested |-> requested,
                 lang |-> DetectLanguage(text, requested)]
    /\ UNCHANGED <<setup, cache, crashed, closed, faults, pc, req, ctx, doneAtStart, got, client,
                   innerCalls, inner, ret, writes>>

\* ------------------------------------------------------------------------
\* language-code normalisation applied twice
\* ------------------------------------------------------------------------

\* codes: the cases of the switch in several spellings, the codes the switch
\* returns, the codes the detection heuristic returns, and unknown codes
NormalizeCodes ==
    {s_zh, s_ZH, s_zh_hans, s_zh_hant, s_zh_CN, s_zh_TW, s_en, s_EN, s_en_us,
     s_en_gb, s_en_GB, s_ja, s_ko, s_fr, s_de, s_es, s_ru, s_pt, s_pt_br,
     s_it, s_ar, s_auto, s_AUTO, s_g4, Empty}

\* NormalizeLanguageCode is applied to a code and then to its own result
NormalizeTwice(code) ==
    /\ probe = NoProbe
    /\ code \in NormalizeCodes
    /\ probe' = [op |-> "normalize", code |-> code,
                 once |-> NormalizeLanguageCode(code),
                 twice |-> NormalizeLanguageCode(NormalizeLanguageCode(code))]
    /\ UNCHANGED <<setup, cache, crashed, closed, faults, pc, req, ctx, doneAtStart, got, client,
                   innerCalls, inner, ret, writes>>

\* ------------------------------------------------------------------------
\* the HTTP handler in front of the translation service
\* ------------------------------------------------------------------------

\* a handler that checks the text but not the target language
translateHandlerNoTargetCheck(payload, defaultModel) ==
    LET model == IF payload.model = Empty /\ defaultModel # Empty
                 THEN defaultModel ELSE payload.model
        dt == IF Len(payload.dt) = 0 THEN <<DtT>> ELSE payload.dt
    IN  IF TrimSpace(payload.q) = Empty
        THEN [status |-> "bad request", call |-> None]
        ELSE [status |-> "call",
              call |-> Some(Request(payload.q, payload.sl, payload.tl, dt, model))]

\* Server.translateHandler up to the call of the translation service: the
\* answer "bad request" or the arguments of Translate / TranslateWithModel
translateHandler(payload, defaultModel) ==
    LET model == IF payload.model = Empty /\ defaultModel # Empty
                 THEN defaultModel ELSE payload.model
        dt == IF Len(payload.dt) = 0 THEN <<DtT>> ELSE payload.dt
    IN  IF TrimSpace(payload.q) = Empty
        THEN [status |-> "bad request", call |-> None]
        ELSE IF TrimSpace(payload.tl) = Empty
        THEN [status |-> "bad request", call |-> None]
        ELSE [status |-> "call",
              call |-> Some(Request(payload.q, payload.sl, payload.tl, dt, model))]

\* decoded payloads: texts and target languages that are missing, blank or
\* given (also with a blank before the code)
HandlerPayloads ==
    {Request(q, sl, tl, dt, model) :
        q \in {s_hi, <<32>>, Empty}, sl \in {Empty, s_auto, s_EN},
        tl \in {Empty, <<32>>, s_ZH, <<32>> \o s_zh},
        dt \in {<<>>, <<DtT, DtRm>>}, model \in {Empty, s_g4}}

\* one HTTP request is handled; on a miss, or without cache, the decorator
\* hands the arguments unchanged to GoogleTranslator, which builds the
\* request of the client from them
HandleOnce(payload, defaultModel) ==
    /\ probe = NoProbe
    /\ payload \in HandlerPayloads
    /\ LET h == translateHandler(payload, defaultModel)
       IN  probe' = [op |-> "handle", payload |-> payload, status |-> h.status,
                     call |-> h.call,
                     treq |-> IF IsSome(h.call)
                              THEN Some(TranslationRequest(
                                      Val(h.call).q, Val(h.call).tl,
                                      doTranslateSourceLang(Val(h.call).sl)))
                              ELSE None]
    /\ UNCHANGED <<setup, cache, crashed, closed, faults, pc, req, ctx, doneAtStart, got, client,
                   innerCalls, inner, ret, writes>>

\* ------------------------------------------------------------------------
\* the entry derived from a response
\* ------------------------------------------------------------------------

\* one translation.AlternativeTranslation with the given candidate texts
AlternativeGroup(src, texts) ==
    [SrcPhrase |-> src, Alternative |-> ToAlternatives(texts)]

\* responses with no, one, two and three sentences and with no, one and
\* two groups of alternative candidates, among them empty candidates,
\* repeated candidates and candidates equal to the whole translated text
ProbeResponses ==
    {Response(s_en, sentences, <<>>, None, Some(LDResult(s_en, 99)), alts, None) :
        sentences \in {<<>>,
                       <<Sentence(s_hi, s_T1, 1, Empty, Empty)>>,
                       <<Sentence(s_hi, s_T1, 1, Empty, Empty),
                         Sentence(Empty, s_T2, 1, Empty, Empty)>>,
                       <<Sentence(s_hi, s_T2, 1, Empty, Empty),
                         Sentence(Empty, Empty, 0, s_hi, s_hi),
                         Sentence(s_hi, s_T1, 1, Empty, Empty)>>},
        alts \in {<<>>,
                  <<AlternativeGroup(s_hi, <<>>)>>,
                  <<AlternativeGroup(s_hi, <<Empty>>)>>,
                  <<AlternativeGroup(s_hi, <<s_T1>>)>>,
                  <<AlternativeGroup(s_hi, <<s_T1 \o s_T2, Empty, s_T2>>)>>,
                  <<AlternativeGroup(s_hi, <<s_T2, s_T1>>),
                    AlternativeGroup(s_hi, <<s_T1, Empty, s_T2, s_T2 \o s_T1>>)>>}}

\* saveToCache derives the entry of a response and encodes it
DeriveEntry(resp) ==
    /\ probe = NoProbe
    /\ resp \in ProbeResponses
    /\ LET entry == buildCachedTranslation(s_DeepLX, s_hi, s_auto, s_ZH, Empty, resp)
       IN  probe' = [op |-> "derive", resp |-> resp, entry |-> entry,
                     data |-> Marshal(entry)]
    /\ UNCHANGED <<setup, cache, crashed, closed, faults, pc, req, ctx, doneAtStart, got, client,
                   innerCalls, inner, ret, writes>>

FnInit ==
    /\ Init
    /\ cfg.ShareAcrossServices
    /\ \A k \in DOMAIN cache0 : cache0[k] = None

FnNext ==
    \/ \E r \in ProbeRequests, result \in UNION {ClientResults(x) : x \in ProbeRequests} :
          TranslateTwice(r, result)
    \/ \E entry \in ProbeEntries : StoreAndReadBack(entry)
    \/ \E share \in BOOLEAN, a \in KeyInputsA, b \in KeyInputsB :
          DeriveKeys(share, a, b)
    \/ \E text \in DetectTexts, requested \in DetectRequested :
          DetectOnce(text, requested)
    \/ \E payload \in HandlerPayloads, defaultModel \in {Empty, s_g4} :
          HandleOnce(payload, defaultModel)
    \/ \E resp \in ProbeResponses : DeriveEntry(resp)
    \/ \E code \in NormalizeCodes : NormalizeTwice(code)

FnSpec == FnInit /\ [][FnNext]_vars

\* ------------------------------------------------------------------------
\* Properties
\* ------------------------------------------------------------------------

Done(c) == pc[c] = "done"

\* the version a JSON document carries (a document without the member: 0)
VersionIn(data) == IF "version" \in data.members THEN data.version ELSE 0

\* the read of call c succeeded and brought a payload that deserializes
\* and carries the current format version
ReadValid(c) ==
    /\ got[c].read
    /\ got[c].getErr = NoErr
    /\ IsSome(got[c].data)
    /\ Val(got[c].data).json
    /\ VersionIn(Val(got[c].data)) = CacheFormatVersion

\* the alternatives a payload carries
AlternativesIn(data) == IF "alternatives" \in data.members THEN data.alternatives ELSE <<>>

\* C1: with caching on, a call whose synchronous read succeeds with a
\* payload that deserializes and carries the current format version has
\* returned: a nil error and a response with exactly one sentence pair (the
\* entry's original and translated text), the entry's alternatives and no
\* other block; and the wrapped service was not invoked for it.
C1_HitServedFromEntry ==
    \A c \in Calls :
        (CachingActive /\ ReadValid(c)) =>
            LET d == Val(got[c].data)
            IN  /\ Done(c)
                /\ innerCalls[c] = 0
                /\ inner[c] = None
                /\ Val(ret[c]).err = NoErr
                /\ LET resp == Val(Val(ret[c]).resp)
                   IN  /\ Len(resp.Sentences) = 1
                       /\ resp.Sentences[1].Orig = d.original_text
                       /\ resp.Sentences[1].Trans = d.translated_text
                       /\ resp.Src = d.source_lang
                       /\ resp.Dict = <<>>
                       /\ resp.Spell = None
                       /\ resp.Examples = None
                       /\ resp.LDResult = None
                       /\ IF AlternativesIn(d) = <<>>
                          THEN resp.AlternativeTranslations = <<>>
                          ELSE /\ Len(resp.AlternativeTranslations) = 1
                               /\ LET alt == resp.AlternativeTranslations[1].Alternative
                                  IN  /\ Len(alt) = Len(AlternativesIn(d))
                                      /\ \A i \in 1..Len(alt) :
                                            alt[i].WordPostproc = AlternativesIn(d)[i]

\* a call served from an entry that a write of this service stored, with
\* alternatives in it
C1_Witness ==
    \E c \in Calls :
        /\ CachingActive /\ ReadValid(c) /\ Done(c)
        /\ got[c].saved # {}
        /\ AlternativesIn(Val(got[c].data)) # <<>>

\* C2: on a miss, when the wrapped service returns an error, the call
\* returns that error with a nil response and no write is started for it
\* (so no Set is issued for it, in this or any later state).
C2_InnerErrorPropagates ==
    \A c \in Calls :
        (CachingActive /\ IsSome(inner[c]) /\ Val(inner[c]).err # NoErr) =>
            /\ Done(c)
            /\ Val(ret[c]) = [resp |-> None, err |-> Val(inner[c]).err]
            /\ wstate[c] = "none"
            /\ welapsed[c] = 0

\* a call whose read missed and whose wrapped service returned a response
\* together with an error
C2_Witness ==
    \E c \in Calls :
        /\ CachingActive /\ got[c].read /\ Done(c)
        /\ IsSome(inner[c]) /\ Val(inner[c]).err # NoErr
        /\ IsSome(Val(inner[c]).resp)

\* the provider answered every attempt of call c with HTTP 500 and the
\* retries are used up
Exhausted500(c) ==
    /\ cfg.provider = "google"
    /\ upstream = {Out500}
    /\ Done(c)
    /\ httpCalls[c] = maxRetryAttempt + 1
    /\ lastErr[c] = "HTTP 500"

\* C3 as claimed: when the provider returns HTTP 500 on every attempt, the
\* translate operation returns a non-nil error once the retries are used up.
C3_HardErrorAfter500 ==
    \A c \in Calls : Exhausted500(c) => Val(ret[c]).err # NoErr

\* C3: when the provider returns HTTP 500 on every attempt, the retrying
\* client returns, once the retries are used up, a failed outcome carrying
\* the error message of the 500; GoogleTranslator turns it into a nil error
\* and a degraded response whose sentence pair echoes the request text, and
\* the cache decorator returns exactly that.
C3_DegradedAfter500 ==
    \A c \in Calls :
        Exhausted500(c) =>
            /\ ~Val(outcome[c]).Success
            /\ Val(outcome[c]).ErrorMessage = "HTTP 500"
            /\ Val(inner[c]).err = NoErr
            /\ Val(ret[c]) = Val(inner[c])
            /\ LET resp == Val(Val(ret[c]).resp)
               IN  /\ Len(resp.Sentences) = 1
                   /\ resp.Sentences[1].Orig = req[c].q
                   /\ resp.Sentences[1].Trans = req[c].q

\* a call through the decorator that used up its retries against HTTP 500
C3_Witness == \E c \in Calls : Exhausted500(c) /\ CachingActive /\ got[c].read

\* C4 as claimed: no cache write occurs for a call whose upstream outcome
\* failed: no write is started for it and the store gets no entry from it.
C4_NoWriteForFailedOutcome ==
    \A c \in Calls :
        (CachingActive /\ IsSome(outcome[c]) /\ ~Val(outcome[c]).Success) =>
            wstate[c] = "none"

\* the raw read of call c is one of the four kinds of miss
ReadFailed(c) == got[c].read /\ got[c].getErr # NoErr
ReadAbsent(c) == got[c].read /\ got[c].getErr = NoErr /\ got[c].data = None
ReadCorrupt(c) ==
    got[c].read /\ got[c].getErr = NoErr /\ IsSome(got[c].data) /\ ~Val(got[c].data).json
ReadStale(c) ==
    /\ got[c].read /\ got[c].getErr = NoErr /\ IsSome(got[c].data)
    /\ Val(got[c].data).json
    /\ VersionIn(Val(got[c].data)) # CacheFormatVersion

\* the errors that come from reading the cache
CacheReadErrors == {"redis get failed", "context done", "unmarshal"}

\* C5: a failed read, an absent payload, a payload that does not
\* deserialize and a version mismatch are all a miss: the wrapped service is
\* called once and what the call returns is the wrapped service's result,
\* never the error of the cache read.
C5_ReadProblemsAreMisses ==
    \A c \in Calls :
        (CachingActive /\ (ReadFailed(c) \/ ReadAbsent(c) \/ ReadCorrupt(c) \/ ReadStale(c))) =>
            /\ innerCalls[c] = 1
            /\ pc[c] \in {"inner", "done"}
            /\ Done(c) =>
                  /\ IsSome(inner[c])
                  /\ Val(ret[c]).err = Val(inner[c]).err
                  /\ Val(ret[c]).err \notin CacheReadErrors
                  /\ Val(inner[c]).err = NoErr => Val(ret[c]) = Val(inner[c])

\* a call whose read brought bytes that do not deserialize and that still
\* returned the provider's translation
C5_Witness ==
    \E c \in Calls :
        /\ CachingActive /\ ReadCorrupt(c) /\ got[c].err = "unmarshal" /\ Done(c)
        /\ Val(ret[c]).err = NoErr
        /\ IsSome(outcome[c]) /\ Val(outcome[c]).Success

\* a stored entry that is a JSON document of another format version
StaleEntry(e) ==
    IsSome(e) /\ Val(e).data.json /\ VersionIn(Val(e).data) # CacheFormatVersion

\* a step in which the detached write of some call stores its value under k
WriteLands(k) ==
    \E c \in Calls :
        /\ wstate[c] = "scheduled" /\ wstate'[c] = "saved"
        /\ KeyOf(req[c]) = k
        /\ VersionIn(Val(cache'[k]).data) = CacheFormatVersion

\* C6: an entry whose stored format version differs from the current one
\* (the previous version, a later one, an out-of-range integer, none at all)
\* is never served: a call that read it has no entry in hand, calls the
\* wrapped service once and returns the wrapped service's result.  The read
\* leaves the store as it is, and a stale entry stays byte for byte in the
\* store until the store evicts it or a detached write replaces it with an
\* entry of the current version.
C6_StaleEntryNeverServed ==
    /\ [](\A c \in Calls :
            (CachingActive /\ ReadStale(c)) =>
                /\ got[c].cached = None
                /\ innerCalls[c] = 1
                /\ Done(c) => /\ IsSome(inner[c])
                              /\ Val(ret[c]).err = Val(inner[c]).err
                              /\ Val(inner[c]).err = NoErr => Val(ret[c]) = Val(inner[c]))
    /\ [][/\ (\E c \in Calls : pc[c] = "get" /\ pc'[c] # "get") => cache' = cache
          /\ \A k \in DOMAIN cache :
                StaleEntry(cache[k]) =>
                    \/ cache'[k] = cache[k]
                    \/ cache'[k] = None
                    \/ WriteLands(k)]_vars

\* a call that read an entry of another version, went upstream, returned the
\* fresh translation, and whose write failed: the stale entry is still there
C6_Witness ==
    \E c \in Calls :
        /\ CachingActive /\ ReadStale(c) /\ Done(c)
        /\ IsSome(outcome[c]) /\ Val(outcome[c]).Success
        /\ wstate[c] \in {"set_failed", "timeout"}
        /\ StaleEntry(cache[KeyOf(req[c])])
        /\ cache[KeyOf(req[c])] = cache0[KeyOf(req[c])]

\* the read of call c missed and the wrapped service returned no error
MissThenSuccess(c) ==
    CachingActive /\ got[c].read /\ IsSome(inner[c]) /\ Val(inner[c]).err = NoErr

\* C7: on a miss with a successful inner result the call returns exactly
\* the inner result, whatever becomes of the scheduled write (stored,
\* rejected by the store, timed out, refused by a cache that was closed in
\* the meantime); the returning step only schedules the
\* write (no Set has been issued and the store is unchanged when the caller
\* has its result), and what the caller received never changes afterwards.
C7_ReturnIndependentOfWrite ==
    /\ [](\A c \in Calls :
            MissThenSuccess(c) =>
                /\ Done(c)
                /\ Val(ret[c]) = Val(inner[c])
                /\ wstate[c] \in {"scheduled", "saved", "set_failed", "timeout", "panicked",
                                  "set_closed"})
    /\ [][\A c \in Calls :
            /\ (pc[c] = "inner" /\ pc'[c] = "done") =>
                  /\ cache' = cache
                  /\ wstate'[c] \in {"none", "scheduled"}
                  /\ welapsed'[c] = 0
            /\ IsSome(ret[c]) => ret'[c] = ret[c]]_vars

\* two calls that both missed and both returned the provider's translation,
\* one whose write the store rejected or timed out, one whose write landed
C7_Witness ==
    \E c, d \in Calls :
        /\ MissThenSuccess(c) /\ MissThenSuccess(d)
        /\ IsSome(Val(ret[c]).resp) /\ IsSome(Val(ret[d]).resp)
        /\ wstate[c] \in {"set_failed", "timeout"}
        /\ wstate[d] = "saved"

\* the write timeout the constructor arrives at
ExpectedWriteTimeout == IF cfg.WriteTimeout > 0 THEN cfg.WriteTimeout ELSE 5

\* C8: the scheduled write does not depend on the caller's context: whether
\* the caller's context is live, cancelled or past its deadline, the Set of
\* a scheduled write to an open cache can go through exactly as long as the
\* write's own timeout (the configured one, 5 s when none is configured) has
\* not run out, and a write ends as timed out only when that timeout has run
\* out.
C8_WriteDetachedFromCaller ==
    \A c \in Calls :
        /\ (wstate[c] = "scheduled" /\ ~closed) =>
              (("ok" \in SetOutcomes(c)) <=> (welapsed[c] < ExpectedWriteTimeout))
        /\ (wstate[c] = "scheduled" /\ ~closed) =>
              ("timeout" \in SetOutcomes(c)) = WriteCtxDone(c)
        /\ WriteCtxDone(c) <=> welapsed[c] >= ExpectedWriteTimeout
        /\ wstate[c] = "timeout" => welapsed[c] = ExpectedWriteTimeout
        /\ welapsed[c] <= ExpectedWriteTimeout

\* the caller's context ended after the inner call had succeeded, time
\* passed, and the write was stored all the same, under the default timeout
C8_Witness ==
    \E c \in Calls :
        /\ CachingActive /\ cfg.WriteTimeout = 0
        /\ IsSome(outcome[c]) /\ Val(outcome[c]).Success
        /\ ctx[c] # "live"
        /\ welapsed[c] > 0
        /\ wstate[c] = "saved"

\* the second call has the first call's inputs and was issued after the
\* first had returned, with nothing in the cache before the first
SequentialPair ==
    /\ CachingActive
    /\ \A k \in DOMAIN cache0 : cache0[k] = None
    /\ req[1] = req[2]
    /\ 1 \in doneAtStart[2]
    /\ Val(ret[1]).err = NoErr

\* C9 as claimed: of two calls with identical inputs issued one after the
\* other on an empty cache, the first is a miss that calls the provider once
\* and the second is a hit, so that the provider was called once.
C9_SecondCallIsHit ==
    (SequentialPair /\ Done(2)) =>
        /\ innerCalls[1] = 1
        /\ innerCalls[2] = 0

\* C9: of two calls with identical inputs issued one after the other on an
\* empty cache, the first is a miss that calls the provider once; the second
\* is a hit, and the provider call count stays 1, when the first call's
\* detached write had stored its entry by the time of the second call's
\* read, and that read succeeded and found the entry still there.
C9_SecondCallIsHitAfterWrite ==
    SequentialPair =>
        /\ innerCalls[1] = 1
        /\ (/\ got[2].read
            /\ 1 \in got[2].saved
            /\ got[2].getErr = NoErr
            /\ got[2].data # None) =>
                /\ Done(2)
                /\ innerCalls[2] = 0
                /\ Val(ret[2]).err = NoErr
                /\ Val(Val(ret[2]).resp).Sentences[1].Orig = req[1].q

\* the second call was served from the entry the first call's write stored
C9_Witness ==
    /\ SequentialPair
    /\ got[2].read /\ 1 \in got[2].saved /\ got[2].getErr = NoErr /\ got[2].data # None
    /\ Done(2)
    /\ IsSome(outcome[1]) /\ Val(outcome[1]).Success

\* C10 as claimed: calls with the same cache key, concurrent ones included,
\* invoke the inner provider at most once between them.
C10_AtMostOneUpstreamPerKey ==
    \A c, d \in Calls :
        (/\ CachingActive /\ c # d
         /\ pc[c] # "idle" /\ pc[d] # "idle"
         /\ KeyOf(req[c]) = KeyOf(req[d])) =>
            innerCalls[c] + innerCalls[d] <= 1

\* C10: each call invokes the inner provider at most once, and exactly when
\* its own read was not a valid hit; calls with the same key are not
\* coalesced, so the upstream calls for a key are as many as the calls for
\* that key whose read missed.
C10_OneUpstreamPerMiss ==
    \A c \in Calls :
        CachingActive =>
            /\ innerCalls[c] <= 1
            /\ ~got[c].read => innerCalls[c] = 0
            /\ got[c].read => innerCalls[c] = (IF ReadValid(c) THEN 0 ELSE 1)

\* two calls with the same key, both past a missed read and both inside the
\* wrapped service at the same time
C10_Witness ==
    \E c, d \in Calls :
        /\ CachingActive /\ c # d
        /\ KeyOf(req[c]) = KeyOf(req[d])
        /\ pc[c] = "inner" /\ pc[d] = "inner"
        /\ innerCalls[c] = 1 /\ innerCalls[d] = 1

\* the original and translated text of each sentence of a response
SentencePairs(resp) ==
    [i \in 1..Len(resp.Sentences) |-> <<resp.Sentences[i].Orig, resp.Sentences[i].Trans>>]

\* the same call was issued twice and the second was served from the entry
\* the first one stored
IssuedTwice == probe.op = "twice" /\ IsSome(probe.second)

\* C11 as claimed: for every requested field set, the detected source
\* language and the sentence pairs (original and translated text) of the
\* response to the second of two identical calls equal those of the first.
C11_SecondResponseEqualsFirst ==
    IssuedTwice =>
        LET first == Val(Val(probe.first).resp)
            second == Val(Val(probe.second).resp)
        IN  /\ second.Src = first.Src
            /\ SentencePairs(second) = SentencePairs(first)

\* an entry of the current format version was stored and read back
StoredCurrent ==
    /\ probe.op \in {"roundtrip", "twice"}
    /\ IsSome(probe.entry)
    /\ Val(probe.entry).Version = CacheFormatVersion

DetectedOrError(r) ==
    \/ r.err # NoErr
    \/ IsSome(r.resp) /\ IsSome(Val(r.resp).LDResult)

\* C13 as claimed: for a request with a non-empty target language, what
\* translate returns on the live and the degraded path (through the adapter
\* and the decorator) and on the cache-hit path has a non-nil
\* language-detection block or a non-nil error.
C13_LanguageDetectionOrError ==
    (probe.op = "twice" /\ probe.r.tl # Empty) =>
        /\ DetectedOrError(Val(probe.first))
        /\ IsSome(probe.second) => DetectedOrError(Val(probe.second))

\* the sub-blocks a response has populated
BlocksOf(resp) ==
    (IF resp.Sentences # <<>> THEN {"sentences"} ELSE {})
        \cup (IF resp.Dict # <<>> THEN {"dict"} ELSE {})
        \cup (IF resp.AlternativeTranslations # <<>> THEN {"alternatives"} ELSE {})
        \cup (IF IsSome(resp.Spell) THEN {"spell"} ELSE {})
        \cup (IF IsSome(resp.Examples) THEN {"examples"} ELSE {})

\* the sub-blocks the tokens of a field set ask for: t and rm the
\* sentences, bd the dictionary and the alternatives, qca the spell check,
\* ex the examples
BlocksRequested(dt) ==
    (IF Includes(dt, DtT) \/ Includes(dt, DtRm) THEN {"sentences"} ELSE {})
        \cup (IF Includes(dt, DtBd) THEN {"dict", "alternatives"} ELSE {})
        \cup (IF Includes(dt, DtQca) THEN {"spell"} ELSE {})
        \cup (IF Includes(dt, DtEx) THEN {"examples"} ELSE {})

\* C14 as claimed: in every response translate returns, for a successful
\* upstream outcome, for a failed one and on a cache hit, each populated
\* sub-block corresponds to a token of the requested field set and every
\* unrequested block is absent.
C14_OnlyRequestedBlocks ==
    probe.op = "twice" =>
        /\ BlocksOf(Val(Val(probe.first).resp)) \subseteq BlocksRequested(probe.r.dt)
        /\ IsSome(probe.second) =>
              BlocksOf(Val(Val(probe.second).resp)) \subseteq BlocksRequested(probe.r.dt)

\* caching is disabled or no cache collaborator is configured
PassThrough == ~cfg.Enabled \/ ~cfg.HasCache

\* C15: with caching disabled or without a cache collaborator, a call goes
\* straight to the wrapped service, once, and returns what the wrapped
\* service returned, response and error unchanged; no read is made, no
\* write is scheduled or run, and the store keeps the content it had.
C15_DisabledIsPassThrough ==
    PassThrough =>
        /\ cache = cache0
        /\ \A c \in Calls :
              /\ pc[c] # "get"
              /\ ~got[c].read
              /\ wstate[c] = "none"
              /\ welapsed[c] = 0
              /\ innerCalls[c] = (IF pc[c] = "idle" THEN 0 ELSE 1)
              /\ Done(c) => ret[c] = inner[c]

\* with caching switched off and a valid entry for the request in the
\* store, a call returned the wrapped service's response together with its
\* error, or the degraded response of the adapter
C15_Witness ==
    /\ PassThrough
    /\ \E k \in DOMAIN cache : IsSome(cache[k])
    /\ \E c \in Calls :
          /\ Done(c)
          /\ IsSome(Val(ret[c]).resp)
          /\ \/ Val(ret[c]).err # NoErr
             \/ IsSome(outcome[c]) /\ ~Val(outcome[c]).Success

\* call c went through the retrying client and the client has returned
ClientReturned(c) == cfg.provider = "google" /\ Done(c) /\ innerCalls[c] = 1

\* C16: every logical translation of the retrying client returns an
\* outcome (never nil); a successful outcome has an empty error message, a
\* failed outcome has a non-empty error message and no translated text.
C16_OutcomeWellFormed ==
    \A c \in Calls :
        /\ ClientReturned(c) => IsSome(outcome[c])
        /\ IsSome(outcome[c]) =>
              LET o == Val(outcome[c])
              IN  IF o.Success
                  THEN o.ErrorMessage = ""
                  ELSE o.ErrorMessage # "" /\ o.TranslatedText = Empty

\* one call got a translation, another a failure after the last retry
C16_Witness ==
    \E c, d \in Calls :
        /\ ClientReturned(c) /\ ClientReturned(d)
        /\ Val(outcome[c]).Success /\ Val(outcome[c]).TranslatedText # Empty
        /\ ~Val(outcome[d]).Success /\ httpCalls[d] = maxRetryAttempt + 1

\* C17: one logical translation sends at most maxRetryAttempt + 1 = 3 HTTP
\* requests, whatever the attempts end in (transport errors, transient or
\* not, read errors, any status, undecodable bodies, a cancellation in
\* flight); the number of requests sent is the attempt number plus one once
\* the client has returned, and the attempt number while it has not.
C17_AtMostThreeAttempts ==
    \A c \in Calls :
        /\ httpCalls[c] <= maxRetryAttempt + 1
        /\ httpCalls[c] <= 3
        /\ attempt[c] <= maxRetryAttempt
        /\ (cfg.provider = "google" /\ pc[c] = "inner") => httpCalls[c] = attempt[c]

\* a translation that succeeded on the third request, after a read error
\* or an undecodable body on an earlier one
C17_Witness ==
    \E c \in Calls :
        /\ ClientReturned(c)
        /\ httpCalls[c] = maxRetryAttempt + 1
        /\ Val(outcome[c]).Success
        /\ lastErr[c] \in {"read response failed", "decode response failed"}

\* call c is inside the retrying client, at the top of an iteration of its
\* loop (before the first attempt, or after the backoff of an earlier one)
AtLoopTop(c) == cfg.provider = "google" /\ pc[c] = "inner"

\* C18: when the caller's context is already cancelled or past its deadline
\* at the top of an iteration, the client sends no HTTP request in that
\* iteration and starts no further one: its next step returns the failed
\* "request cancelled" outcome; and an outcome "request cancelled" is only
\* ever returned under a context that is done.
C18_CancelledBeforeAttempt ==
    /\ [](\A c \in Calls :
            (IsSome(outcome[c]) /\ Val(outcome[c]) = CancelledResult) =>
                /\ ctx[c] # "live"
                /\ ~Val(outcome[c]).Success
                /\ Val(outcome[c]).ErrorMessage = "request cancelled")
    /\ [][\A c \in Calls :
            (AtLoopTop(c) /\ ctx[c] # "live") =>
                /\ httpCalls'[c] = httpCalls[c]
                /\ attempt'[c] = attempt[c]
                /\ pc'[c] \in {"inner", "done"}
                /\ pc'[c] = "done" => outcome'[c] = Some(CancelledResult)]_vars

\* a translation whose first request got HTTP 500, whose caller cancelled
\* during the backoff, and that returned "request cancelled" without a
\* second request
C18_Witness ==
    \E c \in Calls :
        /\ ClientReturned(c)
        /\ Val(outcome[c]) = CancelledResult
        /\ httpCalls[c] = 1
        /\ lastErr[c] = "HTTP 500"

\* C19 as claimed: whenever the caller's context is cancelled or its
\* deadline fires during a logical translation (before an attempt, while an
\* attempt is in flight, during a backoff), the outcome the client returns
\* carries the request-cancelled message, not a transport-failure message,
\* and the client schedules no retry (no backoff, no further attempt) at or
\* after the cancellation.
C19_CancellationDistinctNeverRetried ==
    [][\A c \in Calls :
          (AtLoopTop(c) /\ ctx'[c] # "live") =>
              /\ attempt'[c] = attempt[c]
              /\ pc'[c] = "done" =>
                    Val(outcome'[c]).ErrorMessage = "request cancelled"]_vars

\* the errors of an attempt that failed with a transient network condition
\* or with a 5xx status
RetriableErrors == {"request failed: timeout", "HTTP 500", "HTTP 503"}

\* the step sends the HTTP request of an attempt of call c and the attempt
\* fails with a transient network condition or a 5xx status
RetriableFailure(c) ==
    /\ AtLoopTop(c)
    /\ httpCalls'[c] = httpCalls[c] + 1
    /\ lastErr'[c] \in RetriableErrors
    /\ ~(pc'[c] = "done" /\ Val(outcome'[c]).Success)

\* C20: an attempt that fails with a transient network condition or with a
\* 5xx status is retried when fewer than maxRetryAttempt + 1 attempts were
\* made: the client does not return and goes to the next attempt, which
\* sends a request if the caller's context is still live; the last attempt
\* returns the failed outcome with that error.  Hence a failed outcome with
\* such an error is returned only after exactly maxRetryAttempt + 1
\* requests.
C20_RetriedUntilExhausted ==
    /\ [](\A c \in Calls :
            (/\ ClientReturned(c)
             /\ ~Val(outcome[c]).Success
             /\ Val(outcome[c]).ErrorMessage \in RetriableErrors) =>
                httpCalls[c] = maxRetryAttempt + 1)
    /\ [][\A c \in Calls :
            /\ RetriableFailure(c) =>
                  IF attempt[c] < maxRetryAttempt
                  THEN /\ pc'[c] = "inner"
                       /\ attempt'[c] = attempt[c] + 1
                       /\ outcome'[c] = None
                  ELSE /\ pc'[c] = "done"
                       /\ ~Val(outcome'[c]).Success
                       /\ Val(outcome'[c]).ErrorMessage = lastErr'[c]
            /\ (/\ AtLoopTop(c) /\ ctx[c] = "live"
                /\ (attempt'[c] # attempt[c] \/ pc'[c] # pc[c])) =>
                  httpCalls'[c] = httpCalls[c] + 1]_vars

\* a call whose context stayed live and whose third request timed out like
\* the ones before it
C20_Witness ==
    \E c \in Calls :
        /\ ClientReturned(c)
        /\ ctx[c] = "live"
        /\ httpCalls[c] = maxRetryAttempt + 1
        /\ ~Val(outcome[c]).Success
        /\ Val(outcome[c]).ErrorMessage = "request failed: timeout"

\* the step sends the HTTP request of an attempt of call c and the upstream
\* answers it with a 4xx status
ClientErrorStatus(c) ==
    /\ AtLoopTop(c)
    /\ httpCalls'[c] = httpCalls[c] + 1
    /\ lastErr'[c] = "HTTP 400"
    /\ ~(pc'[c] = "done" /\ Val(outcome'[c]).Success)

DecodeFailure(c) ==
    /\ AtLoopTop(c)
    /\ httpCalls'[c] = httpCalls[c] + 1
    /\ lastErr'[c] = "decode response failed"
    /\ ~(pc'[c] = "done" /\ Val(outcome'[c]).Success)

\* C22 as claimed: an attempt answered by HTTP 200 with an undecodable body
\* ends the logical translation at once, so that exactly one HTTP request
\* was sent for the call.
C22_DecodeErrorNotRetried ==
    [][\A c \in Calls :
          DecodeFailure(c) => pc'[c] = "done" /\ httpCalls'[c] = 1]_vars

\* C22: an attempt answered by HTTP 200 with an undecodable body is retried
\* like a transient failure: when fewer than maxRetryAttempt + 1 attempts
\* were made the client does not return and goes to the next attempt; the
\* last attempt returns the failed outcome with the decode error.  Hence a
\* failed outcome with a decode error is returned only after exactly
\* maxRetryAttempt + 1 = 3 requests.
C22_DecodeErrorRetried ==
    /\ [](\A c \in Calls :
            (/\ ClientReturned(c)
             /\ ~Val(outcome[c]).Success
             /\ Val(outcome[c]).ErrorMessage = "decode response failed") =>
                httpCalls[c] = maxRetryAttempt + 1)
    /\ [][\A c \in Calls :
            DecodeFailure(c) =>
                IF attempt[c] < maxRetryAttempt
                THEN /\ pc'[c] = "inner"
                     /\ attempt'[c] = attempt[c] + 1
                     /\ outcome'[c] = None
                ELSE /\ pc'[c] = "done"
                     /\ outcome'[c] =
                           Some(TranslationResult(FALSE, Empty, Empty, Empty,
                                                  "decode response failed"))]_vars

\* a call that returned the decode error after three requests
C22_Witness ==
    \E c \in Calls :
        /\ ClientReturned(c)
        /\ httpCalls[c] = maxRetryAttempt + 1
        /\ ~Val(outcome[c]).Success
        /\ Val(outcome[c]).ErrorMessage = "decode response failed"

\* the step is the last attempt (number maxRetryAttempt) of call c, it sends
\* its HTTP request and fails
LastAttemptFails(c) ==
    /\ AtLoopTop(c)
    /\ attempt[c] = maxRetryAttempt
    /\ httpCalls'[c] = httpCalls[c] + 1
    /\ pc'[c] = "done"
    /\ ~Val(outcome'[c]).Success

\* C23: when all maxRetryAttempt + 1 attempts of a logical translation have
\* failed, the failed outcome carries the error message recorded for the
\* last attempt; in particular, when the caller's context ends while the
\* last request is in flight, the message is that of the transport failure
\* of this request, whatever the earlier attempts failed with.
C23_LastErrorReported ==
    /\ [](\A c \in Calls :
            (/\ ClientReturned(c)
             /\ ~Val(outcome[c]).Success
             /\ httpCalls[c] = maxRetryAttempt + 1) =>
                Val(outcome[c]).ErrorMessage = lastErr[c])
    /\ [][\A c \in Calls :
            LastAttemptFails(c) =>
                /\ Val(outcome'[c]).ErrorMessage = lastErr'[c]
                /\ (ctx[c] = "live" /\ ctx'[c] # "live") =>
                      Val(outcome'[c]).ErrorMessage = AttemptError(CtxOutcome(ctx'[c]))
                /\ (ctx'[c] = "live" /\ upstream = {Out500}) =>
                      Val(outcome'[c]).ErrorMessage = "HTTP 500"]_vars

\* an upstream that answers 500 to everything and a deadline that fired
\* during the third request: the outcome carries the timeout of the third
\* attempt, not the HTTP 500 of the first two
C23_Witness ==
    \E c \in Calls :
        /\ upstream = {Out500}
        /\ ClientReturned(c)
        /\ httpCalls[c] = maxRetryAttempt + 1
        /\ ~Val(outcome[c]).Success
        /\ lastErr[c] = "request failed: timeout"
        /\ Val(outcome[c]).ErrorMessage = "request failed: timeout"

\* a request was translated and the client's outcome for it was a failure
FailedOutcome ==
    probe.op = "twice" /\ IsSome(probe.result) /\ ~Val(probe.result).Success

\* C24: when the outcome of the client is a failure (any status, transport,
\* read or decode error, a cancellation), GoogleTranslator.Translate and
\* TranslateWithModel return a nil error and a response whose sentence list
\* is one pair with Orig = Trans = the request text, for every request text,
\* language pair, field set and model.
C24_DegradedEchoWithoutError ==
    FailedOutcome =>
        LET first == Val(probe.first)
        IN  /\ first.err = NoErr
            /\ IsSome(first.resp)
            /\ Len(Val(first.resp).Sentences) = 1
            /\ Val(first.resp).Sentences[1].Orig = probe.r.q
            /\ Val(first.resp).Sentences[1].Trans = probe.r.q

\* a TranslateWithModel call with a model name whose outcome was a failed
\* attempt with an HTTP status, answered by the echo
C24_Witness ==
    /\ FailedOutcome
    /\ probe.r.model = s_g4
    /\ Val(probe.result).ErrorMessage = "HTTP 400"
    /\ Val(probe.first).err = NoErr
    /\ Val(Val(probe.first).resp).Sentences[1].Trans = probe.r.q

\* the keys of a pair of calls were derived
KeysDerived == probe.op = "keys"

\* the inputs of the key derivation after normalisation: the scope (the
\* case-folded service name, or the shared sentinel), the trimmed text, the
\* trimmed and case-folded source language, target language and model
NormalizedInput(share, a) ==
    <<IF share THEN SharedServiceName ELSE ToLower(a.service),
      TrimSpace(a.r.q),
      ToLower(TrimSpace(a.r.sl)),
      ToLower(TrimSpace(a.r.tl)),
      ToLower(TrimSpace(a.r.model))>>

\* the positions at which the normalised inputs of the two calls differ
DifferingInputs ==
    {i \in 1..5 : NormalizedInput(probe.share, probe.a)[i]
                    # NormalizedInput(probe.share, probe.b)[i]}

\* C25: two calls whose inputs are identical after normalisation get the
\* same key, whatever their field sets (dt) and spellings are; and the key
\* derived for a call is the same before and after the key of another call
\* was derived.
C25_KeyIsFunctionOfNormalizedInputs ==
    KeysDerived =>
        /\ probe.keys[3] = probe.keys[1]
        /\ DifferingInputs = {} => probe.keys[2] = probe.keys[1]

\* two calls that differ in the spelling of the service name, the blank
\* before the text, the case of both languages and the field set, with one
\* key
C25_Witness ==
    /\ KeysDerived
    /\ ~probe.share
    /\ probe.a.service # probe.b.service
    /\ probe.a.r.q # probe.b.r.q
    /\ probe.a.r.sl # probe.b.r.sl
    /\ probe.a.r.tl # probe.b.r.tl
    /\ probe.a.r.dt # probe.b.r.dt
    /\ probe.a.r.model = s_g4
    /\ DifferingInputs = {}
    /\ probe.keys[2] = probe.keys[1]

\* C26: two calls whose normalised inputs differ in exactly one of scope,
\* text, source language, target language and model get different keys
\* (the digest taken as collision-free).
C26_OneInputChangesKey ==
    (KeysDerived /\ Cardinality(DifferingInputs) = 1) =>
        probe.keys[2] # probe.keys[1]

\* a pair of calls in one scope that differ in the model alone, with two keys
C26_Witness ==
    /\ KeysDerived
    /\ DifferingInputs = {5}
    /\ probe.keys[2] # probe.keys[1]

\* DetectLanguage was applied
Detected == probe.op = "detect"

\* the scripts a rune belongs to, by the ranges of the four predicates
ScriptsOf(r) ==
    {l \in {s_zh_CN, s_ru, s_ja, s_ko} :
        \/ l = s_zh_CN /\ IsCJK(r)
        \/ l = s_ru /\ IsCyrillic(r)
        \/ l = s_ja /\ IsJapanese(r)
        \/ l = s_ko /\ IsKorean(r)}

\* the code of the first character of the text that is in a recognised
\* script range, "en" when there is none
RECURSIVE FirstScript(_)
FirstScript(text) ==
    IF text = <<>> THEN s_en
    ELSE IF ScriptsOf(Head(text)) # {} THEN CHOOSE l \in ScriptsOf(Head(text)) : TRUE
    ELSE FirstScript(Tail(text))

\* C27: DetectLanguage returns a code for every text and requested language:
\* when the requested language is not blank and is not the auto sentinel in
\* any letter case, the requested code mapped through the code table,
\* whatever the text; otherwise the code of the first character of the text
\* that lies in a recognised script range (Han zh-CN, Cyrillic ru, Hiragana
\* or Katakana ja, Hangul ko), and "en" when no character does.  No
\* character lies in two of the ranges.
C27_DetectLanguage ==
    Detected =>
        /\ \A i \in 1..Len(probe.text) : Cardinality(ScriptsOf(probe.text[i])) <= 1
        /\ IF TrimSpace(probe.requested) # Empty /\ ToLower(probe.requested) # s_auto
           THEN probe.lang = NormalizeLanguageCode(probe.requested)
           ELSE probe.lang = FirstScript(probe.text)

\* the sentinel in upper case and a text of a Latin letter, a Hiragana
\* letter and a Han character, in this order: detected as Japanese
C27_Witness ==
    /\ Detected
    /\ probe.requested = s_AUTO
    /\ probe.text = <<104, 12371, 20320>>
    /\ probe.lang = s_ja

\* a request was translated and the client's outcome for it was a success
SucceededOutcome ==
    probe.op = "twice" /\ IsSome(probe.result) /\ Val(probe.result).Success

\* C28: for a successful outcome the response's Src is the outcome's source
\* language mapped through the code table when the outcome reports one,
\* and otherwise the code the heuristic gives for the request text (first
\* character in a recognised script range, "en" when none), whatever source
\* language the request named; the language-detection block lists exactly
\* this language, with one confidence.
C28_SourceLanguageOfSuccess ==
    SucceededOutcome =>
        LET resp == Val(Val(probe.first).resp)
            reported == Val(probe.result).SourceLang
        IN  /\ resp.Src = IF reported # Empty THEN NormalizeLanguageCode(reported)
                          ELSE FirstScript(probe.r.q)
            /\ IsSome(resp.LDResult)
            /\ Val(resp.LDResult).Srclangs = <<resp.Src>>
            /\ Len(Val(resp.LDResult).SrclangsConfidences) = 1

\* a Chinese text sent with source "auto" and an outcome that reports no
\* source language: Src and the detected language are zh-CN
C28_Witness ==
    /\ SucceededOutcome
    /\ probe.r.q = s_ni
    /\ probe.r.sl = s_auto
    /\ Val(probe.result).SourceLang = Empty
    /\ Val(Val(probe.first).resp).Src = s_zh_CN
    /\ Val(Val(Val(probe.first).resp).LDResult).Srclangs = <<s_zh_CN>>

\* C29: for a successful outcome the sentence list is the translation pair
\* (Orig the request text, Trans the translated text) if and only if "t" is
\* among the requested data types, followed by the transliteration entry if
\* and only if "rm" is, in this order whatever the order of the data types;
\* a request for "t" alone gets exactly one sentence pair and no dictionary,
\* spell-check or example block.
C29_SentencesOfSuccess ==
    SucceededOutcome =>
        LET resp == Val(Val(probe.first).resp)
            s == resp.Sentences
            hasT == \E i \in 1..Len(probe.r.dt) : probe.r.dt[i] = "t"
            hasRm == \E i \in 1..Len(probe.r.dt) : probe.r.dt[i] = "rm"
            n == (IF hasT THEN 1 ELSE 0) + (IF hasRm THEN 1 ELSE 0)
        IN  /\ Len(s) = n
            /\ hasT => /\ s[1].Orig = probe.r.q
                       /\ s[1].Trans = Val(probe.result).TranslatedText
                       /\ s[1].SrcTranslit = Empty /\ s[1].Translit = Empty
            /\ hasRm => /\ s[n].SrcTranslit = probe.r.q
                        /\ s[n].Translit = ToUpper(probe.r.q)
                        /\ s[n].Orig = Empty /\ s[n].Trans = Empty
            /\ probe.r.dt = <<"t">> =>
                  /\ Len(s) = 1
                  /\ resp.Dict = <<>> /\ resp.Spell = None /\ resp.Examples = None

\* a request for the transliteration and the translation, in this order:
\* the response has the translation pair first, the transliteration second
C29_Witness ==
    /\ SucceededOutcome
    /\ probe.r.dt = <<"rm", "t">>
    /\ Len(Val(Val(probe.first).resp).Sentences) = 2
    /\ Val(Val(probe.first).resp).Sentences[1].Trans = s_T1
    /\ Val(Val(probe.first).resp).Sentences[2].SrcTranslit = probe.r.q

\* the detached write of call c has stored its entry
Wrote(c) == wstate[c] = "saved" /\ IsSome(ret[c]) /\ IsSome(Val(ret[c]).resp)

\* the entry the write of call c encodes
WrittenEntry(c) ==
    buildCachedTranslation(ServiceName, req[c].q, req[c].sl, req[c].tl, req[c].model,
                           Val(Val(ret[c]).resp))

\* C30 as claimed: all writes to one key encode equivalent content (the
\* same translated text and the same alternatives), and the store holds the
\* entry of the write that completed last, so that a later hit returns the
\* same translated text and alternatives whatever the order in which the
\* writes landed.
C30_WritesToOneKeyEquivalent ==
    \A c, d \in Calls :
        (Wrote(c) /\ Wrote(d) /\ KeyOf(req[c]) = KeyOf(req[d])) =>
            /\ WrittenEntry(c).TranslatedText = WrittenEntry(d).TranslatedText
            /\ WrittenEntry(c).Alternatives = WrittenEntry(d).Alternatives
            /\ IsSome(cache[KeyOf(req[c])]) =>
                  LET hit == getFromCache(NoErr, Some(Val(cache[KeyOf(req[c])]).data))
                  IN  IsSome(hit.cached) =>
                         Val(hit.cached).TranslatedText = WrittenEntry(c).TranslatedText

\* an HTTP request was handled
Handled == probe.op = "handle"

RECURSIVE SumOf(_)
SumOf(s) == IF s = <<>> THEN 0 ELSE Head(s) + SumOf(Tail(s))

\* C32: the backoff is linear: the wait after attempt number a is
\* (a + 1) * 200 ms, so consecutive waits differ by 200 ms; in a logical
\* call the k-th wait slept is k * 200 ms, one logical call sleeps at most
\* 200 + 400 = 600 ms in total, and exactly that when all three attempts
\* were made; a step in which the client returns (after the last attempt,
\* after a failure that is not retried, after a success, on cancellation)
\* sleeps nothing, and every wait follows a request sent in the same step.
C32_LinearBackoff ==
    /\ [](/\ \A a \in 0..MaxBackoffAttempt :
                /\ backoff(a) = (a + 1) * 200
                /\ backoff(a + 1) - backoff(a) = 200
          /\ \A c \in Calls :
                /\ slept[c] = [k \in 1..attempt[c] |-> k * 200]
                /\ SumOf(slept[c]) <= 600
                /\ httpCalls[c] = maxRetryAttempt + 1 =>
                      slept[c] = <<200, 400>> /\ SumOf(slept[c]) = 600)
    /\ [][\A c \in Calls :
            /\ (AtLoopTop(c) /\ pc'[c] = "done") => slept'[c] = slept[c]
            /\ slept'[c] # slept[c] =>
                  /\ httpCalls'[c] = httpCalls[c] + 1
                  /\ pc'[c] = "inner"
                  /\ Len(slept'[c]) = Len(slept[c]) + 1]_vars

\* one call slept 200 ms and 400 ms and returned the failure of its third
\* attempt; another returned a 4xx failure without any wait
C32_Witness ==
    \E c, d \in Calls :
        /\ ClientReturned(c) /\ ClientReturned(d)
        /\ ~Val(outcome[c]).Success
        /\ httpCalls[c] = maxRetryAttempt + 1
        /\ slept[c] = <<200, 400>>
        /\ Val(outcome[d]).ErrorMessage = "HTTP 400"
        /\ slept[d] = <<>>

\* an entry was derived from a response
Derived == probe.op = "derive"

\* the candidate texts of all groups of alternatives, in their order
RECURSIVE CandidateTexts(_)
CandidateTexts(alts) ==
    IF alts = <<>> THEN <<>>
    ELSE [i \in 1..Len(Head(alts).Alternative) |-> Head(alts).Alternative[i].WordPostproc]
             \o CandidateTexts(Tail(alts))

\* whether a candidate text is kept next to the stored translated text
KeptCandidate(a) == a # Empty /\ a # probe.entry.TranslatedText

\* C33: the entry derived from a response stores as translated text the
\* Trans of all its sentences joined in order (empty for no sentence), and
\* as alternatives the candidate texts of all groups, in order, that are
\* not empty and differ from this stored translated text; the encoded entry
\* has the member "alternatives" if and only if a candidate remains.
C33_EntryDerivedFromResponse ==
    Derived =>
        LET s == probe.resp.Sentences
            text == probe.entry.TranslatedText
        IN  /\ Len(s) = 0 => text = Empty
            /\ Len(s) = 1 => text = s[1].Trans
            /\ Len(s) = 2 => text = s[1].Trans \o s[2].Trans
            /\ Len(s) = 3 => text = s[1].Trans \o s[2].Trans \o s[3].Trans
            /\ Len(s) <= 3
            /\ probe.entry.Alternatives =
                  SelectSeq(CandidateTexts(probe.resp.AlternativeTranslations),
                            KeptCandidate)
            /\ ("alternatives" \in probe.data.members) <=> (probe.entry.Alternatives # <<>>)

\* two sentences and the candidates "OKok!", "" and "ok!": the entry stores
\* "OKok!" and the one alternative "ok!"
C33_Witness ==
    /\ Derived
    /\ Len(probe.resp.Sentences) = 2
    /\ CandidateTexts(probe.resp.AlternativeTranslations) = <<s_T1 \o s_T2, Empty, s_T2>>
    /\ probe.entry.TranslatedText = s_T1 \o s_T2
    /\ probe.entry.Alternatives = <<s_T2>>
    /\ "alternatives" \in probe.data.members

\* the step in which the store accepts the detached write of call c
WriteAccepted(c) == wstate[c] = "scheduled" /\ wstate'[c] = "saved"

\* the step is the synchronous read of call d, the store answers it, and
\* the key holds what the write of call c stored
ReadsWhatWasWritten(c, d) ==
    /\ wstate[c] = "saved"
    /\ IsSome(ret[c]) /\ IsSome(Val(ret[c]).resp)
    /\ pc[d] = "get" /\ pc'[d] # "get"
    /\ got'[d].getErr = NoErr
    /\ got'[d].key = got[c].key
    /\ IsSome(cache[got[c].key])
    /\ Val(cache[got[c].key]).data = Marshal(WrittenEntry(c))

\* C34: the detached write of a call stores under the key its synchronous
\* read used (and changes no other key), with the configured TTL and an
\* entry of the current format version, and only before the write timeout
\* has passed; a later read of this key that the store answers while the
\* key still holds what was written is a hit: the call returns without
\* invoking the wrapped service.
C34_WriteUnderReadKey ==
    /\ [][\A c \in Calls :
            WriteAccepted(c) =>
                /\ got[c].read
                /\ got[c].key = KeyOf(req[c])
                /\ \A k \in DOMAIN cache : k # got[c].key => cache'[k] = cache[k]
                /\ IsSome(cache'[got[c].key])
                /\ Val(cache'[got[c].key]).ttl = cfg.TTL
                /\ Val(cache'[got[c].key]).data.version = CacheFormatVersion
                /\ welapsed[c] < writeTimeout]_vars
    /\ [][\A c, d \in Calls :
            ReadsWhatWasWritten(c, d) =>
                /\ IsSome(got'[d].cached)
                /\ pc'[d] = "done"
                /\ innerCalls'[d] = innerCalls[d]]_vars

\* the write of one call was stored without expiry, and a later call whose
\* request spells the same key differently (blank before the text, case of
\* the languages) was served from it
C34_Witness ==
    \E c, d \in Calls :
        /\ c # d
        /\ wstate[c] = "saved"
        /\ cfg.TTL = 0
        /\ req[d] # req[c]
        /\ pc[d] = "done"
        /\ got[d].key = got[c].key
        /\ IsSome(got[d].cached)
        /\ IsSome(ret[c]) /\ IsSome(Val(ret[c]).resp)
        /\ got[d].data = Some(Marshal(WrittenEntry(c)))
        /\ innerCalls[d] = 0

\* C35 as claimed: when "qca" (spell check) is among the requested data
\* types, the response the adapter builds for a successful outcome has a
\* spell-check block that holds the request text with leading and trailing
\* whitespace removed.
C35_SpellCheckTrimmed ==
    (SucceededOutcome /\ \E i \in 1..Len(probe.r.dt) : probe.r.dt[i] = "qca") =>
        LET resp == Val(Val(probe.first).resp)
        IN  /\ IsSome(resp.Spell)
            /\ Val(resp.Spell).SpellRes = TrimSpace(probe.r.q)

\* C36 as claimed: the detached write never takes the process down:
\* whatever the wrapped service returned together with a nil error, a nil
\* response included, the write ends by storing an entry or by logging,
\* never in a panic.
C36_WriteNeverPanics ==
    /\ ~crashed
    /\ \A c \in Calls : wstate[c] # "panicked"

\* C37 as claimed: no detached write calls Set on the cache after the
\* cache was closed by CachedTranslationService.Close or Server.Shutdown.
C37_NoSetOnClosedCache ==
    \A c \in Calls : wstate[c] # "set_closed"

\* C38 as claimed: a call served from the cache gets a sentence pair whose
\* original text is the text of its own request, for every request whose
\* key matches the entry, also when its text differs from the text of the
\* request that wrote the entry in surrounding whitespace.
C38_HitEchoesRequestText ==
    \A c \in Calls :
        (Done(c) /\ IsSome(got[c].cached) /\ IsSome(ret[c]) /\ IsSome(Val(ret[c]).resp)) =>
            /\ Len(Val(Val(ret[c]).resp).Sentences) >= 1
            /\ Val(Val(ret[c]).resp).Sentences[1].Orig = req[c].q

\* C39 as claimed: two calls in one scope whose normalised (text, source
\* language, target language, model) differ get different keys, also when a
\* field contains the separator of the digest's input (the digest taken as
\* collision-free).
C39_DifferentInputsDifferentKeys ==
    (KeysDerived /\ DifferingInputs # {} /\ 1 \notin DifferingInputs) =>
        probe.keys[2] # probe.keys[1]

\* NormalizeLanguageCode was applied twice
Normalized == probe.op = "normalize"

\* C40 as claimed: NormalizeLanguageCode is idempotent: normalising the
\* result of a normalisation changes nothing, so a code that is already
\* normalised (one the switch or the detection heuristic returns) passes
\* through unchanged.
C40_NormalizeIdempotent ==
    Normalized => probe.twice = probe.once

====
